---------------------------- MODULE Spec2Model ----------------------------
(***************************************************************************)
(* potranslate (src/main.go): synchronising gettext PO catalogs with their *)
(* POT template.                                                           *)
(*                                                                         *)
(* A Go string is a sequence of one-character strings.  A file on disk is  *)
(* the sequence of its lines, i.e. strings.Split(content, "\n"); writing   *)
(* strings.Join(lines, "\n") stores the lines again.  A Go map is a        *)
(* function; ranging over a map visits its keys in an order the runtime    *)
(* chooses, so every such loop draws a permutation of the keys.            *)
(***************************************************************************)
EXTENDS Integers, Sequences, FiniteSets, TLC

(***************************************************************************)
(* Characters and the literals of the source.                              *)
(***************************************************************************)
QT == "\""
BS == "\\"
NL == "\n"
TAB == "\t"
SP == " "
CR == "\r"
FF == "\f"
\* Characters without a literal of their own are written by name, the name
\* of a character outside ASCII being U+ and its code point in hexadecimal:
\* vertical tab, next line (U+0085), no-break space (U+00A0)
VT == "VT"
NEL == "U+0085"
NBSP == "U+00A0"
\* The white space above Latin-1 (the Zs, Zl and Zp characters of
\* unicode.White_Space), the ideographic space U+3000 among them
SpacesAboveLatin1 ==
    {"U+1680", "U+2000", "U+2001", "U+2002", "U+2003", "U+2004", "U+2005", "U+2006",
     "U+2007", "U+2008", "U+2009", "U+200A", "U+2028", "U+2029", "U+202F", "U+205F",
     "U+3000"}

HexDigits ==
    <<"0", "1", "2", "3", "4", "5", "6", "7", "8", "9", "A", "B", "C", "D", "E", "F">>

\* The number a string of hexadecimal digits stands for
RECURSIVE hexValue(_)
hexValue(digits) ==
    IF Len(digits) = 0 THEN 0
    ELSE hexValue(SubSeq(digits, 1, Len(digits) - 1)) * 16
             + (CHOOSE d \in 0..15 :
                    HexDigits[d + 1] = SubSeq(digits, Len(digits), Len(digits)))

\* The code point of a character written by name
codePoint(c) == hexValue(SubSeq(c, 3, Len(c)))

\* The bytes of a character in UTF-8, the encoding of Go's strings: one for
\* ASCII, two up to U+07FF, three up to U+FFFF, four above
utf8Len(c) ==
    IF Len(c) = 1 \/ c = VT THEN 1
    ELSE IF codePoint(c) < 128 THEN 1
    ELSE IF codePoint(c) < 2048 THEN 2
    ELSE IF codePoint(c) < 65536 THEN 3
    ELSE 4

\* The bytes the characters of s at the positions of the set take beyond
\* their first
RECURSIVE moreBytes(_, _)
moreBytes(s, positions) ==
    IF positions = {} THEN 0
    ELSE LET n == CHOOSE m \in positions : TRUE
         IN (utf8Len(s[n]) - 1) + moreBytes(s, positions \ {n})

\* Go's len(s): the bytes of the string, one for each character and the
\* further bytes of the characters outside ASCII
byteLen(s) == Len(s) + moreBytes(s, {n \in 1..Len(s) : Len(s[n]) > 1})

litMsgid == <<"m", "s", "g", "i", "d">>
litMsgstr == <<"m", "s", "g", "s", "t", "r">>
litMsgidSp == litMsgid \o <<SP>>
litMsgstrSp == litMsgstr \o <<SP>>
litEmptyMsgid == litMsgidSp \o <<QT, QT>>
litEmptyMsgstr == litMsgstrSp \o <<QT, QT>>
litAddedFromPot ==
    <<"#", ":", SP, "(", "a", "d", "d", "e", "d", SP, "f", "r", "o", "m", SP,
      "P", "O", "T", ")">>

(***************************************************************************)
(* The functions of package strings that the source uses.                  *)
(***************************************************************************)
HasPrefix(s, p) == Len(s) >= Len(p) /\ SubSeq(s, 1, Len(p)) = p

HasSuffix(s, p) == Len(s) >= Len(p) /\ SubSeq(s, Len(s) - Len(p) + 1, Len(s)) = p

\* Go's s[n:]
From(s, n) == SubSeq(s, n + 1, Len(s))

Contains(s, sub) ==
    \E i \in 1..(Len(s) + 1 - Len(sub)) : SubSeq(s, i, i + Len(sub) - 1) = sub

\* unicode.IsSpace, which strings.TrimSpace trims by
IsSpace(c) == c \in {SP, TAB, NL, VT, FF, CR, NEL, NBSP} \cup SpacesAboveLatin1

RECURSIVE TrimLeft(_)
TrimLeft(s) == IF s # <<>> /\ IsSpace(Head(s)) THEN TrimLeft(Tail(s)) ELSE s

RECURSIVE TrimRight(_)
TrimRight(s) ==
    IF s # <<>> /\ IsSpace(s[Len(s)]) THEN TrimRight(SubSeq(s, 1, Len(s) - 1)) ELSE s

TrimSpace(s) == TrimRight(TrimLeft(s))

TrimPrefix(s, p) == IF HasPrefix(s, p) THEN From(s, Len(p)) ELSE s

TrimSuffix(s, p) == IF HasSuffix(s, p) THEN SubSeq(s, 1, Len(s) - Len(p)) ELSE s

\* strings.ReplaceAll for a non-empty old: non-overlapping matches, left to right
RECURSIVE ReplaceAll(_, _, _)
ReplaceAll(s, old, new) ==
    IF Len(s) < Len(old) THEN s
    ELSE IF HasPrefix(s, old) THEN new \o ReplaceAll(From(s, Len(old)), old, new)
    ELSE <<Head(s)>> \o ReplaceAll(Tail(s), old, new)

\* strings.Split for a one-character separator
RECURSIVE SplitAcc(_, _, _)
SplitAcc(s, c, cur) ==
    IF s = <<>> THEN <<cur>>
    ELSE IF Head(s) = c THEN <<cur>> \o SplitAcc(Tail(s), c, <<>>)
    ELSE SplitAcc(Tail(s), c, Append(cur, Head(s)))

Split(s, c) == SplitAcc(s, c, <<>>)

\* Concatenation of a sequence of sequences (append(lines, more...))
RECURSIVE Flatten(_)
Flatten(ss) == IF ss = <<>> THEN <<>> ELSE Head(ss) \o Flatten(Tail(ss))

\* The lines of the file that strings.Join(newLines, "\n") is written to:
\* an empty list gives a file of no bytes, which is one empty line, and a
\* newline inside a line of the list starts another line of the file
JoinedLines(newLines) ==
    IF newLines = <<>> THEN <<<<>>>>
    ELSE Flatten([n \in 1..Len(newLines) |->
                     IF \A m \in 1..Len(newLines[n]) : newLines[n][m] # NL
                     THEN <<newLines[n]>>
                     ELSE Split(newLines[n], NL)])

(***************************************************************************)
(* The escaper.                                                            *)
(***************************************************************************)
\* s[1 : len(s)-1] of a one-character s is out of range: the run panics
extractPanics(s) == TrimSpace(s) = <<QT>>

extractString(s) ==
    LET t == TrimSpace(s)
        u == IF HasPrefix(t, <<QT>>) /\ HasSuffix(t, <<QT>>)
             THEN SubSeq(t, 2, Len(t) - 1)
             ELSE t
        a == ReplaceAll(u, <<BS, "n">>, <<NL>>)
        b == ReplaceAll(a, <<BS, "t">>, <<TAB>>)
    IN ReplaceAll(b, <<BS, QT>>, <<QT>>)

escapeString(s) ==
    LET a == ReplaceAll(s, <<BS>>, <<BS, BS>>)
        b == ReplaceAll(a, <<QT>>, <<BS, QT>>)
        c == ReplaceAll(b, <<NL>>, <<BS, "n">>)
    IN ReplaceAll(c, <<TAB>>, <<BS, "t">>)

\* fmt.Sprintf("\"%s\"", escapeString(part)) and its "\"%s\\n\"" form
Quoted(part) == <<QT>> \o escapeString(part) \o <<QT>>

QuotedNl(part) == <<QT>> \o escapeString(part) \o <<BS, "n", QT>>

\* The lines the three writers emit for a msgid or msgstr with text `text`:
\* one line, or the keyword with an empty literal and one line per part.
EmitParts(parts) ==
    [i \in 1..(Len(parts) - 1) |-> QuotedNl(parts[i])]
        \o (IF parts[Len(parts)] # <<>> THEN <<Quoted(parts[Len(parts)])>> ELSE <<>>)

EmitBlock(keywordSp, text) ==
    IF Contains(text, <<NL>>)
    THEN <<keywordSp \o <<QT, QT>>>> \o EmitParts(Split(text, NL))
    ELSE <<keywordSp \o Quoted(text)>>

(***************************************************************************)
(* Maps.                                                                   *)
(***************************************************************************)
EmptyMap == <<>>

Put(m, k, v) == [x \in (DOMAIN m) \cup {k} |-> IF x = k THEN v ELSE m[x]]

Has(m, k) == k \in DOMAIN m

Delete(m, k) == [x \in (DOMAIN m) \ {k} |-> m[x]]

\* The orders in which a range loop can visit the key set S
Orders(S) ==
    {o \in [1..Cardinality(S) -> S] : \A i, j \in 1..Cardinality(S) : i # j => o[i] # o[j]}

(***************************************************************************)
(* parsePotFile: the scan of the template.  bufio.Scanner with ScanLines   *)
(* yields the lines of the file, each without its final carriage return,   *)
(* and no line for the empty rest after the last newline.  It stops with   *)
(* an error at a line that does not fit its buffer.                        *)
(***************************************************************************)
\* bufio.MaxScanTokenSize, the buffer limit of the scanners of lines 263, 366
MaxScanTokenSize == 65536

\* bufio's dropCR
dropCR(line) ==
    IF line # <<>> /\ line[Len(line)] = CR THEN SubSeq(line, 1, Len(line) - 1) ELSE line

\* The line does not fit the scanner's buffer: it has as many bytes as the
\* buffer holds, which a line of as many characters always has
tooLong(line) == Len(line) >= MaxScanTokenSize \/ byteLen(line) >= MaxScanTokenSize

\* scanner.Err() is bufio.ErrTooLong
scannerErr(lines) == \E n \in 1..Len(lines) : tooLong(lines[n])

RECURSIVE scanTokens(_, _)
scanTokens(lines, n) ==
    IF n > Len(lines) \/ tooLong(lines[n]) THEN <<>>
    ELSE <<dropCR(lines[n])>> \o scanTokens(lines, n + 1)

ScannerLines(lines) ==
    scanTokens(IF lines # <<>> /\ lines[Len(lines)] = <<>>
               THEN SubSeq(lines, 1, Len(lines) - 1)
               ELSE lines, 1)

POEntry(msgstr, comments) == [Msgstr |-> msgstr, Comments |-> comments]

parseInit ==
    [entries |-> EmptyMap, currentMsgid |-> <<>>, currentMsgstr |-> <<>>,
     currentComments |-> <<>>, pendingComments |-> <<>>,
     inMsgid |-> FALSE, inMsgstr |-> FALSE, crashed |-> FALSE]

\* An entry that is not stored
parseSaveNothing(st) == st.entries

parseSave(st) ==
    IF st.currentMsgid # <<>>
    THEN Put(st.entries, st.currentMsgid, POEntry(st.currentMsgstr, st.currentComments))
    ELSE st.entries

\* A parser that takes the key from the msgid line alone
parseLineFirstLine(st, line) ==
    LET trimmed == TrimSpace(line) IN
    IF HasPrefix(trimmed, litMsgidSp) THEN
        IF extractPanics(From(trimmed, 6)) THEN [st EXCEPT !.crashed = TRUE]
        ELSE [st EXCEPT !.entries = parseSave(st),
                        !.currentMsgid = extractString(From(trimmed, 6)),
                        !.currentMsgstr = <<>>,
                        !.currentComments = st.pendingComments,
                        !.pendingComments = <<>>,
                        !.inMsgid = TRUE, !.inMsgstr = FALSE]
    ELSE IF HasPrefix(trimmed, litMsgstrSp) THEN
        IF extractPanics(From(trimmed, 7)) THEN [st EXCEPT !.crashed = TRUE]
        ELSE [st EXCEPT !.currentMsgstr = extractString(From(trimmed, 7)),
                        !.inMsgid = FALSE, !.inMsgstr = TRUE]
    ELSE IF HasPrefix(trimmed, <<QT>>) /\ (st.inMsgid \/ st.inMsgstr) THEN
        IF extractPanics(trimmed) THEN [st EXCEPT !.crashed = TRUE]
        ELSE IF st.inMsgid
             THEN st
             ELSE [st EXCEPT !.currentMsgstr = @ \o extractString(trimmed)]
    ELSE IF HasPrefix(trimmed, <<"#">>) THEN
        [st EXCEPT !.pendingComments =
                       IF ~st.inMsgid /\ ~st.inMsgstr THEN Append(@, line) ELSE @,
                   !.inMsgid = FALSE, !.inMsgstr = FALSE]
    ELSE IF trimmed = <<>> THEN
        [st EXCEPT !.inMsgid = FALSE, !.inMsgstr = FALSE]
    ELSE st

\* A parser that puts a newline before the text of a continuation line
parseLineNewline(st, line) ==
    LET trimmed == TrimSpace(line) IN
    IF HasPrefix(trimmed, litMsgidSp) THEN
        IF extractPanics(From(trimmed, 6)) THEN [st EXCEPT !.crashed = TRUE]
        ELSE [st EXCEPT !.entries = parseSave(st),
                        !.currentMsgid = extractString(From(trimmed, 6)),
                        !.currentMsgstr = <<>>,
                        !.currentComments = st.pendingComments,
                        !.pendingComments = <<>>,
                        !.inMsgid = TRUE, !.inMsgstr = FALSE]
    ELSE IF HasPrefix(trimmed, litMsgstrSp) THEN
        IF extractPanics(From(trimmed, 7)) THEN [st EXCEPT !.crashed = TRUE]
        ELSE [st EXCEPT !.currentMsgstr = extractString(From(trimmed, 7)),
                        !.inMsgid = FALSE, !.inMsgstr = TRUE]
    ELSE IF HasPrefix(trimmed, <<QT>>) /\ (st.inMsgid \/ st.inMsgstr) THEN
        IF extractPanics(trimmed) THEN [st EXCEPT !.crashed = TRUE]
        ELSE IF st.inMsgid
             THEN [st EXCEPT !.currentMsgid = @ \o <<NL>> \o extractString(trimmed)]
             ELSE [st EXCEPT !.currentMsgstr = @ \o <<NL>> \o extractString(trimmed)]
    ELSE IF HasPrefix(trimmed, <<"#">>) THEN
        [st EXCEPT !.pendingComments =
                       IF ~st.inMsgid /\ ~st.inMsgstr THEN Append(@, line) ELSE @,
                   !.inMsgid = FALSE, !.inMsgstr = FALSE]
    ELSE IF trimmed = <<>> THEN
        [st EXCEPT !.inMsgid = FALSE, !.inMsgstr = FALSE]
    ELSE st

parseLine(st, line) ==
    LET trimmed == TrimSpace(line) IN
    IF HasPrefix(trimmed, litMsgidSp) THEN
        IF extractPanics(From(trimmed, 6)) THEN [st EXCEPT !.crashed = TRUE]
        ELSE [st EXCEPT !.entries = parseSave(st),
                        !.currentMsgid = extractString(From(trimmed, 6)),
                        !.currentMsgstr = <<>>,
                        !.currentComments = st.pendingComments,
                        !.pendingComments = <<>>,
                        !.inMsgid = TRUE, !.inMsgstr = FALSE]
    ELSE IF HasPrefix(trimmed, litMsgstrSp) THEN
        IF extractPanics(From(trimmed, 7)) THEN [st EXCEPT !.crashed = TRUE]
        ELSE [st EXCEPT !.currentMsgstr = extractString(From(trimmed, 7)),
                        !.inMsgid = FALSE, !.inMsgstr = TRUE]
    ELSE IF HasPrefix(trimmed, <<QT>>) /\ (st.inMsgid \/ st.inMsgstr) THEN
        IF extractPanics(trimmed) THEN [st EXCEPT !.crashed = TRUE]
        ELSE IF st.inMsgid
             THEN [st EXCEPT !.currentMsgid = @ \o extractString(trimmed)]
             ELSE [st EXCEPT !.currentMsgstr = @ \o extractString(trimmed)]
    ELSE IF HasPrefix(trimmed, <<"#">>) THEN
        [st EXCEPT !.pendingComments =
                       IF ~st.inMsgid /\ ~st.inMsgstr THEN Append(@, line) ELSE @,
                   !.inMsgid = FALSE, !.inMsgstr = FALSE]
    ELSE IF trimmed = <<>> THEN
        [st EXCEPT !.inMsgid = FALSE, !.inMsgstr = FALSE]
    ELSE st

RECURSIVE parseScan(_, _, _)
parseScan(st, lines, i) ==
    IF i > Len(lines) \/ st.crashed THEN st
    ELSE parseScan(parseLine(st, lines[i]), lines, i + 1)

\* The entries parsePotFile returns (the header's empty key deleted)
parsePotFile(lines) ==
    LET st == parseScan(parseInit, ScannerLines(lines), 1)
    IN [crashed |-> st.crashed,
        \* lines 329-331: the scanner's error is returned instead of the entries
        err |-> ~st.crashed /\ scannerErr(lines),
        entries |-> IF st.crashed \/ scannerErr(lines) THEN EmptyMap
                    ELSE Delete(parseSave(st), <<>>)]

(***************************************************************************)
(* The language of a catalog.                                              *)
(***************************************************************************)
litLanguage == <<QT, "L", "a", "n", "g", "u", "a", "g", "e", ":">>

litDotPo == <<".", "p", "o">>

\* Lines 270-278 and 370-378: the language a line that holds "Language: names,
\* empty when it names none
LanguageOf(line) ==
    LET parts == Split(line, ":") IN
    IF Len(parts) >= 2
    THEN TrimSuffix(TrimSuffix(TrimPrefix(TrimSpace(parts[2]), <<QT>>), <<BS, "n", QT>>),
                    <<QT>>)
    ELSE <<>>

\* The last line of the file, from line i on, that names a language
RECURSIVE languageScanLast(_, _)
languageScanLast(lines, i) ==
    IF i > Len(lines) THEN <<>>
    ELSE IF languageScanLast(lines, i + 1) # <<>> THEN languageScanLast(lines, i + 1)
    ELSE IF Contains(lines[i], litLanguage) THEN LanguageOf(lines[i])
    ELSE <<>>

\* The first line of the file, from line i on, that names a language
RECURSIVE languageScan(_, _)
languageScan(lines, i) ==
    IF i > Len(lines) THEN <<>>
    ELSE IF Contains(lines[i], litLanguage) /\ LanguageOf(lines[i]) # <<>>
    THEN LanguageOf(lines[i])
    ELSE languageScan(lines, i + 1)

\* Lines 268-281: parsePotFile keeps the language of the last line that names
\* one
RECURSIVE sourceScan(_, _, _)
sourceScan(lines, i, lang) ==
    IF i > Len(lines) THEN lang
    ELSE sourceScan(lines, i + 1,
                    IF Contains(lines[i], litLanguage) /\ LanguageOf(lines[i]) # <<>>
                    THEN LanguageOf(lines[i])
                    ELSE lang)

\* The source language parsePotFile returns with the entries, and the empty
\* string it returns with the scanner's error (lines 329-331)
detectedSourceLang(lines) ==
    IF scannerErr(lines) THEN <<>> ELSE sourceScan(ScannerLines(lines), 1, <<>>)

\* getTargetLanguage of a file with these lines and this base name
getTargetLanguage(lines, base) ==
    LET found == languageScan(ScannerLines(lines), 1)
        parts == Split(base, "_")
        lang == TrimSuffix(parts[Len(parts)], litDotPo)
    IN IF found # <<>> THEN [ok |-> TRUE, lang |-> found]
       ELSE IF Len(parts) >= 2 /\ lang # <<>> THEN [ok |-> TRUE, lang |-> lang]
       ELSE [ok |-> FALSE, lang |-> <<>>]

(***************************************************************************)
(* translatePoFile (incremental sync), pass by pass.                       *)
(***************************************************************************)
\* First pass: the msgids the PO file holds
existingInit ==
    [existingMsgids |-> {}, currentMsgid |-> <<>>, inMsgid |-> FALSE, crashed |-> FALSE]

existingLine(st, line) ==
    LET trimmed == TrimSpace(line) IN
    IF HasPrefix(trimmed, litMsgidSp) THEN
        IF extractPanics(From(trimmed, 6)) THEN [st EXCEPT !.crashed = TRUE]
        ELSE [st EXCEPT !.currentMsgid = extractString(From(trimmed, 6)),
                        !.inMsgid = TRUE]
    ELSE IF HasPrefix(trimmed, litMsgstrSp) THEN
        [st EXCEPT !.existingMsgids =
                       IF st.currentMsgid # <<>> THEN @ \cup {st.currentMsgid} ELSE @,
                   !.inMsgid = FALSE]
    ELSE IF HasPrefix(trimmed, <<QT>>) /\ st.inMsgid THEN
        IF extractPanics(trimmed) THEN [st EXCEPT !.crashed = TRUE]
        ELSE [st EXCEPT !.currentMsgid = @ \o extractString(trimmed)]
    ELSE IF trimmed = <<>> \/ HasPrefix(trimmed, <<"#">>) THEN
        [st EXCEPT !.inMsgid = FALSE]
    ELSE st

RECURSIVE existingScan(_, _, _)
existingScan(st, lines, i) ==
    IF i > Len(lines) \/ st.crashed THEN st
    ELSE existingScan(existingLine(st, lines[i]), lines, i + 1)

\* A sync that takes every key of the template for missing
MissingSetAll(potEntries, existingMsgids) ==
    {msgid \in DOMAIN potEntries : msgid # <<>>}

\* The keys the range over potEntries collects as missing
MissingSet(potEntries, existingMsgids) ==
    {msgid \in DOMAIN potEntries : msgid # <<>> /\ msgid \notin existingMsgids}

\* An appended entry without the marker line
AddedEntryNoMarker(potEntries, msgid) ==
    <<<<>>>>
        \o (IF Has(potEntries, msgid) THEN potEntries[msgid].Comments ELSE <<>>)
        \o EmitBlock(litMsgidSp, msgid)
        \o <<litEmptyMsgstr>>

\* The lines appended for one missing msgid
AddedEntry(potEntries, msgid) ==
    <<<<>>>>
        \o (IF Has(potEntries, msgid) /\ Len(potEntries[msgid].Comments) > 0
            THEN potEntries[msgid].Comments
            ELSE <<litAddedFromPot>>)
        \o EmitBlock(litMsgidSp, msgid)
        \o <<litEmptyMsgstr>>

\* A sync that leaves the missing entries out of the file
AppendMissingNothing(lines, missingMsgids, potEntries) == lines

\* Add missing entries to the end of the file
AppendMissing(lines, missingMsgids, potEntries) ==
    IF Len(missingMsgids) = 0 THEN lines
    ELSE (IF Len(lines) > 0 /\ lines[Len(lines)] # <<>> THEN Append(lines, <<>>) ELSE lines)
            \o Flatten([n \in 1..Len(missingMsgids) |->
                            AddedEntry(potEntries, missingMsgids[n])])

\* Second pass: the entries that need translation
needsInit ==
    [needsTranslation |-> <<>>, currentMsgid |-> <<>>, currentMsgstr |-> <<>>,
     inMsgid |-> FALSE, inMsgstr |-> FALSE, crashed |-> FALSE]

needsLine(st, line, potEntries) ==
    LET trimmed == TrimSpace(line) IN
    IF HasPrefix(trimmed, litMsgidSp) THEN
        IF extractPanics(From(trimmed, 6)) THEN [st EXCEPT !.crashed = TRUE]
        ELSE [st EXCEPT !.currentMsgid = extractString(From(trimmed, 6)),
                        !.inMsgid = TRUE, !.inMsgstr = FALSE]
    ELSE IF HasPrefix(trimmed, litMsgstrSp) THEN
        IF extractPanics(From(trimmed, 7)) THEN [st EXCEPT !.crashed = TRUE]
        ELSE LET currentMsgstr == extractString(From(trimmed, 7)) IN
             [st EXCEPT !.currentMsgstr = currentMsgstr,
                        !.inMsgid = FALSE, !.inMsgstr = TRUE,
                        !.needsTranslation =
                            IF /\ st.currentMsgid # <<>>
                               /\ currentMsgstr = <<>>
                               /\ Has(potEntries, st.currentMsgid)
                               /\ potEntries[st.currentMsgid].Msgstr = <<>>
                            THEN Append(@, st.currentMsgid)
                            ELSE @]
    ELSE IF HasPrefix(trimmed, <<QT>>) /\ st.inMsgid THEN
        IF extractPanics(trimmed) THEN [st EXCEPT !.crashed = TRUE]
        ELSE [st EXCEPT !.currentMsgid = @ \o extractString(trimmed)]
    ELSE IF HasPrefix(trimmed, <<QT>>) /\ st.inMsgstr THEN
        IF extractPanics(trimmed) THEN [st EXCEPT !.crashed = TRUE]
        ELSE [st EXCEPT !.currentMsgstr = @ \o extractString(trimmed)]
    ELSE IF trimmed = <<>> \/ HasPrefix(trimmed, <<"#">>) THEN
        [st EXCEPT !.inMsgid = FALSE, !.inMsgstr = FALSE]
    ELSE st

RECURSIVE needsScan(_, _, _, _)
needsScan(st, lines, i, potEntries) ==
    IF i > Len(lines) \/ st.crashed THEN st
    ELSE needsScan(needsLine(st, lines[i], potEntries), lines, i + 1, potEntries)

\* Third pass: the lines written back, with the translations put in place
patchInit ==
    [newLines |-> <<>>, currentMsgid |-> <<>>, inMsgid |-> FALSE, inMsgstr |-> FALSE,
     skipNextMsgstr |-> FALSE, crashed |-> FALSE]

\* The look-ahead loop of a msgid that has a translation (j from i+1).  Its
\* assignments to the range variable i do not move the outer loop.
RECURSIVE patchLookAhead(_, _, _)
patchLookAhead(st, lines, j) ==
    IF j > Len(lines) \/ st.crashed THEN st
    ELSE LET nextTrimmed == TrimSpace(lines[j]) IN
         IF HasPrefix(nextTrimmed, litMsgstrSp) THEN st
         ELSE IF HasPrefix(nextTrimmed, <<QT>>) /\ st.inMsgid THEN
             IF extractPanics(nextTrimmed) THEN [st EXCEPT !.crashed = TRUE]
             ELSE patchLookAhead(
                      [st EXCEPT !.currentMsgid = @ \o extractString(nextTrimmed),
                                 !.newLines = Append(@, lines[j])],
                      lines, j + 1)
         ELSE IF nextTrimmed # <<>> /\ ~HasPrefix(nextTrimmed, <<"#">>) THEN st
         ELSE patchLookAhead([st EXCEPT !.newLines = Append(@, lines[j])], lines, j + 1)

\* translations[currentMsgid]: the zero value for a key the map lacks
Lookup(translations, msgid) == IF Has(translations, msgid) THEN translations[msgid] ELSE <<>>

\* The msgstr lines that replace the old msgstr line
ReplacementMsgstr(translation) == EmitBlock(litMsgstrSp, translation)

patchLine(st, lines, i, translations) ==
    LET line == lines[i]
        trimmed == TrimSpace(line)
    IN
    IF HasPrefix(trimmed, litMsgidSp) THEN
        IF extractPanics(From(trimmed, 6)) THEN [st EXCEPT !.crashed = TRUE]
        ELSE LET currentMsgid == extractString(From(trimmed, 6))
                 st1 == [st EXCEPT !.currentMsgid = currentMsgid,
                                   !.inMsgid = TRUE, !.inMsgstr = FALSE,
                                   !.newLines = Append(@, line)]
             IN IF Has(translations, currentMsgid)
                THEN patchLookAhead([st1 EXCEPT !.skipNextMsgstr = TRUE], lines, i + 1)
                ELSE st1
    ELSE IF HasPrefix(trimmed, litMsgstrSp) THEN
        IF st.skipNextMsgstr
        THEN [st EXCEPT !.inMsgid = FALSE, !.inMsgstr = TRUE,
                        !.newLines =
                            @ \o ReplacementMsgstr(Lookup(translations, st.currentMsgid)),
                        !.skipNextMsgstr = FALSE]
        ELSE [st EXCEPT !.inMsgid = FALSE, !.inMsgstr = TRUE,
                        !.newLines = Append(@, line)]
    ELSE IF HasPrefix(trimmed, <<QT>>) /\ st.inMsgid THEN
        IF extractPanics(trimmed) THEN [st EXCEPT !.crashed = TRUE]
        ELSE [st EXCEPT !.currentMsgid = @ \o extractString(trimmed),
                        !.newLines = Append(@, line)]
    ELSE
        LET dropped == /\ st.skipNextMsgstr
                       /\ HasPrefix(trimmed, <<QT>>)
                       /\ i > 1
                       /\ Contains(lines[i - 1], litMsgstr)
            reset == trimmed = <<>> \/ HasPrefix(trimmed, <<"#">>)
        IN [st EXCEPT !.newLines = IF dropped THEN @ ELSE Append(@, line),
                      !.inMsgid = IF reset THEN FALSE ELSE @,
                      !.inMsgstr = IF reset THEN FALSE ELSE @]

RECURSIVE patchScan(_, _, _, _)
patchScan(st, lines, i, translations) ==
    IF i > Len(lines) \/ st.crashed THEN st
    ELSE patchScan(patchLine(st, lines, i, translations), lines, i + 1, translations)

PatchedLines(lines, translations) == patchScan(patchInit, lines, 1, translations).newLines

(***************************************************************************)
(* rewritePoFile (rewrite mode).                                           *)
(***************************************************************************)
rewriteInit ==
    [existingTranslations |-> EmptyMap, currentMsgid |-> <<>>, currentMsgstr |-> <<>>,
     inMsgid |-> FALSE, inMsgstr |-> FALSE, headerLines |-> <<>>, inHeader |-> TRUE,
     crashed |-> FALSE]

\* The classification of one line of the old file
rewriteClassify(st, line) ==
    LET trimmed == TrimSpace(line) IN
    IF HasPrefix(trimmed, litMsgidSp) THEN
        IF trimmed = litEmptyMsgid /\ st.inHeader
        THEN [st EXCEPT !.currentMsgid = <<>>, !.inMsgid = TRUE, !.inMsgstr = FALSE]
        ELSE IF extractPanics(From(trimmed, 6)) THEN [st EXCEPT !.crashed = TRUE]
        ELSE [st EXCEPT !.inHeader = FALSE,
                        !.currentMsgid = extractString(From(trimmed, 6)),
                        !.currentMsgstr = <<>>,
                        !.inMsgid = TRUE, !.inMsgstr = FALSE]
    ELSE IF HasPrefix(trimmed, litMsgstrSp) THEN
        IF st.inHeader /\ st.currentMsgid = <<>>
        THEN [st EXCEPT !.inMsgid = FALSE, !.inMsgstr = TRUE]
        ELSE IF extractPanics(From(trimmed, 7)) THEN [st EXCEPT !.crashed = TRUE]
        ELSE [st EXCEPT !.currentMsgstr = extractString(From(trimmed, 7)),
                        !.inMsgid = FALSE, !.inMsgstr = TRUE]
    ELSE IF HasPrefix(trimmed, <<QT>>) THEN
        IF st.inMsgid /\ ~st.inHeader THEN
            IF extractPanics(trimmed) THEN [st EXCEPT !.crashed = TRUE]
            ELSE [st EXCEPT !.currentMsgid = @ \o extractString(trimmed)]
        ELSE IF st.inMsgstr /\ ~st.inHeader THEN
            IF extractPanics(trimmed) THEN [st EXCEPT !.crashed = TRUE]
            ELSE [st EXCEPT !.currentMsgstr = @ \o extractString(trimmed)]
        ELSE st
    ELSE IF trimmed = <<>> THEN
        LET inHeader == IF st.inHeader /\ st.currentMsgid = <<>> THEN FALSE ELSE st.inHeader
            save == ~inHeader /\ st.currentMsgid # <<>>
        IN [st EXCEPT !.inHeader = inHeader,
                      !.existingTranslations =
                          IF save THEN Put(@, st.currentMsgid, st.currentMsgstr) ELSE @,
                      !.currentMsgid = IF save THEN <<>> ELSE @,
                      !.currentMsgstr = IF save THEN <<>> ELSE @,
                      !.inMsgid = FALSE, !.inMsgstr = FALSE]
    ELSE IF HasPrefix(trimmed, <<"#">>) THEN
        [st EXCEPT !.headerLines = IF st.inHeader THEN Append(@, line) ELSE @]
    ELSE st

\* "Collect header lines": what the end of the loop body adds to headerLines
rewriteCollect(st, line) ==
    LET trimmed == TrimSpace(line)
        h == st.headerLines
    IN
    IF /\ st.inHeader
       /\ \/ st.currentMsgid = <<>>
          \/ trimmed = <<>>
          \/ HasPrefix(trimmed, litMsgid)
          \/ HasPrefix(trimmed, litMsgstr)
          \/ HasPrefix(trimmed, <<QT>>)
       /\ \/ ~HasPrefix(trimmed, <<"#">>)
          \/ Len(h) = 0
          \/ line # h[Len(h)]
       /\ \/ line # <<>>
          \/ Len(h) = 0
          \/ h[Len(h)] # <<>>
    THEN [st EXCEPT !.headerLines = Append(@, line)]
    ELSE st

rewriteLine(st, line) ==
    LET st1 == rewriteClassify(st, line)
    IN IF st1.crashed THEN st1 ELSE rewriteCollect(st1, line)

RECURSIVE rewriteScan(_, _, _)
rewriteScan(st, lines, i) ==
    IF i > Len(lines) \/ st.crashed THEN st
    ELSE rewriteScan(rewriteLine(st, lines[i]), lines, i + 1)

\* The header lines and the translations of the old file
rewriteExtract(lines) ==
    LET st == rewriteScan(rewriteInit, lines, 1)
    IN [crashed |-> st.crashed,
        headerLines |-> st.headerLines,
        existingTranslations |->
            IF st.currentMsgid # <<>> /\ ~st.inHeader
            THEN Put(st.existingTranslations, st.currentMsgid, st.currentMsgstr)
            ELSE st.existingTranslations]

\* The keys the range over potEntries collects for translation
RewriteNeedsSet(potEntries, existingTranslations) ==
    {msgid \in DOMAIN potEntries :
        /\ msgid # <<>>
        /\ \/ ~Has(existingTranslations, msgid)
           \/ existingTranslations[msgid] = <<>>}

\* The msgstr of one rewritten entry
RewriteMsgstr(msgid, translations, existingTranslations) ==
    IF Has(translations, msgid) THEN translations[msgid]
    ELSE IF Has(existingTranslations, msgid) THEN existingTranslations[msgid]
    ELSE <<>>

\* The lines of one rewritten entry
RewrittenEntry(potEntries, msgid, translations, existingTranslations) ==
    <<<<>>>>
        \o potEntries[msgid].Comments
        \o EmitBlock(litMsgidSp, msgid)
        \o EmitBlock(litMsgstrSp, RewriteMsgstr(msgid, translations, existingTranslations))

\* The new file: the header, then the entries in the order `order` of the
\* range over potEntries
RewrittenLines(headerLines, potEntries, order, translations, existingTranslations) ==
    headerLines
        \o (IF Len(headerLines) > 0 /\ headerLines[Len(headerLines)] # <<>>
            THEN <<<<>>>> ELSE <<>>)
        \o Flatten([n \in 1..Len(order) |->
                        IF order[n] = <<>> THEN <<>>
                        ELSE RewrittenEntry(potEntries, order[n], translations,
                                            existingTranslations)])

\* A count of every entry of the old file, in the template or not
removedCountAll(potEntries, existingTranslations) ==
    Cardinality({msgid \in DOMAIN existingTranslations : msgid # <<>>})

\* The obsolete entries rewrite mode counts
removedCount(potEntries, existingTranslations) ==
    Cardinality({msgid \in DOMAIN existingTranslations :
                     ~Has(potEntries, msgid) /\ msgid # <<>>})

(***************************************************************************)
(* copyPotToPo.                                                            *)
(***************************************************************************)
litLanguageTeam ==
    <<QT, "L", "a", "n", "g", "u", "a", "g", "e", "-", "T", "e", "a", "m", ":">>

litRevisionDate ==
    <<QT, "P", "O", "-", "R", "e", "v", "i", "s", "i", "o", "n", "-", "D", "a", "t", "e",
      ":">>

LowerCase ==
    <<"a", "b", "c", "d", "e", "f", "g", "h", "i", "j", "k", "l", "m", "n", "o", "p", "q",
      "r", "s", "t", "u", "v", "w", "x", "y", "z">>

UpperCase ==
    <<"A", "B", "C", "D", "E", "F", "G", "H", "I", "J", "K", "L", "M", "N", "O", "P", "Q",
      "R", "S", "T", "U", "V", "W", "X", "Y", "Z">>

\* The letters above ASCII that have an upper-case form, as unicode.ToUpper
\* maps them: <<first, last, stride, delta>> says that the code points first,
\* first + stride, ... up to last map to themselves plus delta
CaseRanges ==
    << <<181, 181, 1, 743>>, <<224, 246, 1, -32>>, <<248, 254, 1, -32>>, <<255, 255, 1, 121>>,
      <<257, 303, 2, -1>>, <<305, 305, 1, -232>>, <<307, 311, 2, -1>>, <<314, 328, 2, -1>>,
      <<331, 375, 2, -1>>, <<378, 382, 2, -1>>, <<383, 383, 1, -300>>, <<384, 384, 1, 195>>,
      <<387, 389, 2, -1>>, <<392, 392, 1, -1>>, <<396, 396, 1, -1>>, <<402, 402, 1, -1>>,
      <<405, 405, 1, 97>>, <<409, 409, 1, -1>>, <<410, 410, 1, 163>>, <<414, 414, 1, 130>>,
      <<417, 421, 2, -1>>, <<424, 424, 1, -1>>, <<429, 429, 1, -1>>, <<432, 432, 1, -1>>,
      <<436, 438, 2, -1>>, <<441, 441, 1, -1>>, <<445, 445, 1, -1>>, <<447, 447, 1, 56>>,
      <<453, 453, 1, -1>>, <<454, 454, 1, -2>>, <<456, 456, 1, -1>>, <<457, 457, 1, -2>>,
      <<459, 459, 1, -1>>, <<460, 460, 1, -2>>, <<462, 476, 2, -1>>, <<477, 477, 1, -79>>,
      <<479, 495, 2, -1>>, <<498, 498, 1, -1>>, <<499, 499, 1, -2>>, <<501, 501, 1, -1>>,
      <<505, 543, 2, -1>>, <<547, 563, 2, -1>>, <<572, 572, 1, -1>>, <<575, 576, 1, 10815>>,
      <<578, 578, 1, -1>>, <<583, 591, 2, -1>>, <<592, 592, 1, 10783>>, <<593, 593, 1, 10780>>,
      <<594, 594, 1, 10782>>, <<595, 595, 1, -210>>, <<596, 596, 1, -206>>,
      <<598, 599, 1, -205>>, <<601, 601, 1, -202>>, <<603, 603, 1, -203>>,
      <<604, 604, 1, 42319>>, <<608, 608, 1, -205>>, <<609, 609, 1, 42315>>,
      <<611, 611, 1, -207>>, <<613, 613, 1, 42280>>, <<614, 614, 1, 42308>>,
      <<616, 616, 1, -209>>, <<617, 617, 1, -211>>, <<618, 618, 1, 42308>>,
      <<619, 619, 1, 10743>>, <<620, 620, 1, 42305>>, <<623, 623, 1, -211>>,
      <<625, 625, 1, 10749>>, <<626, 626, 1, -213>>, <<629, 629, 1, -214>>,
      <<637, 637, 1, 10727>>, <<640, 640, 1, -218>>, <<642, 642, 1, 42307>>,
      <<643, 643, 1, -218>>, <<647, 647, 1, 42282>>, <<648, 648, 1, -218>>,
      <<649, 649, 1, -69>>, <<650, 651, 1, -217>>, <<652, 652, 1, -71>>, <<658, 658, 1, -219>>,
      <<669, 669, 1, 42261>>, <<670, 670, 1, 42258>>, <<837, 837, 1, 84>>, <<881, 883, 2, -1>>,
      <<887, 887, 1, -1>>, <<891, 893, 1, 130>>, <<940, 940, 1, -38>>, <<941, 943, 1, -37>>,
      <<945, 961, 1, -32>>, <<962, 962, 1, -31>>, <<963, 971, 1, -32>>, <<972, 972, 1, -64>>,
      <<973, 974, 1, -63>>, <<976, 976, 1, -62>>, <<977, 977, 1, -57>>, <<981, 981, 1, -47>>,
      <<982, 982, 1, -54>>, <<983, 983, 1, -8>>, <<985, 1007, 2, -1>>, <<1008, 1008, 1, -86>>,
      <<1009, 1009, 1, -80>>, <<1010, 1010, 1, 7>>, <<1011, 1011, 1, -116>>,
      <<1013, 1013, 1, -96>>, <<1016, 1016, 1, -1>>, <<1019, 1019, 1, -1>>,
      <<1072, 1103, 1, -32>>, <<1104, 1119, 1, -80>>, <<1121, 1153, 2, -1>>,
      <<1163, 1215, 2, -1>>, <<1218, 1230, 2, -1>>, <<1231, 1231, 1, -15>>,
      <<1233, 1327, 2, -1>>, <<1377, 1414, 1, -48>>, <<4304, 4346, 1, 3008>>,
      <<4349, 4351, 1, 3008>>, <<5112, 5117, 1, -8>>, <<7296, 7296, 1, -6254>>,
      <<7297, 7297, 1, -6253>>, <<7298, 7298, 1, -6244>>, <<7299, 7300, 1, -6242>>,
      <<7301, 7301, 1, -6243>>, <<7302, 7302, 1, -6236>>, <<7303, 7303, 1, -6181>>,
      <<7304, 7304, 1, 35266>>, <<7545, 7545, 1, 35332>>, <<7549, 7549, 1, 3814>>,
      <<7566, 7566, 1, 35384>>, <<7681, 7829, 2, -1>>, <<7835, 7835, 1, -59>>,
      <<7841, 7935, 2, -1>>, <<7936, 7943, 1, 8>>, <<7952, 7957, 1, 8>>, <<7968, 7975, 1, 8>>,
      <<7984, 7991, 1, 8>>, <<8000, 8005, 1, 8>>, <<8017, 8023, 2, 8>>, <<8032, 8039, 1, 8>>,
      <<8048, 8049, 1, 74>>, <<8050, 8053, 1, 86>>, <<8054, 8055, 1, 100>>,
      <<8056, 8057, 1, 128>>, <<8058, 8059, 1, 112>>, <<8060, 8061, 1, 126>>,
      <<8064, 8071, 1, 8>>, <<8080, 8087, 1, 8>>, <<8096, 8103, 1, 8>>, <<8112, 8113, 1, 8>>,
      <<8115, 8115, 1, 9>>, <<8126, 8126, 1, -7205>>, <<8131, 8131, 1, 9>>,
      <<8144, 8145, 1, 8>>, <<8160, 8161, 1, 8>>, <<8165, 8165, 1, 7>>, <<8179, 8179, 1, 9>>,
      <<8526, 8526, 1, -28>>, <<8560, 8575, 1, -16>>, <<8580, 8580, 1, -1>>,
      <<9424, 9449, 1, -26>>, <<11312, 11359, 1, -48>>, <<11361, 11361, 1, -1>>,
      <<11365, 11365, 1, -10795>>, <<11366, 11366, 1, -10792>>, <<11368, 11372, 2, -1>>,
      <<11379, 11379, 1, -1>>, <<11382, 11382, 1, -1>>, <<11393, 11491, 2, -1>>,
      <<11500, 11502, 2, -1>>, <<11507, 11507, 1, -1>>, <<11520, 11557, 1, -7264>>,
      <<11559, 11559, 1, -7264>>, <<11565, 11565, 1, -7264>>, <<42561, 42605, 2, -1>>,
      <<42625, 42651, 2, -1>>, <<42787, 42799, 2, -1>>, <<42803, 42863, 2, -1>>,
      <<42874, 42876, 2, -1>>, <<42879, 42887, 2, -1>>, <<42892, 42892, 1, -1>>,
      <<42897, 42899, 2, -1>>, <<42900, 42900, 1, 48>>, <<42903, 42921, 2, -1>>,
      <<42933, 42947, 2, -1>>, <<42952, 42954, 2, -1>>, <<42961, 42961, 1, -1>>,
      <<42967, 42969, 2, -1>>, <<42998, 42998, 1, -1>>, <<43859, 43859, 1, -928>>,
      <<43888, 43967, 1, -38864>>, <<65345, 65370, 1, -32>>, <<66600, 66639, 1, -40>>,
      <<66776, 66811, 1, -40>>, <<66967, 67003, 2, -39>>, <<66968, 66976, 2, -39>>,
      <<66980, 66992, 2, -39>>, <<66996, 67000, 2, -39>>, <<67004, 67004, 1, -39>>,
      <<68800, 68850, 1, -64>>, <<71872, 71903, 1, -32>>, <<93792, 93823, 1, -32>>,
      <<125218, 125251, 1, -34>> >>

\* The digits of a code point in a character's name, most significant first
RECURSIVE hexText(_)
hexText(cp) == IF cp = 0 THEN "" ELSE hexText(cp \div 16) \o HexDigits[(cp % 16) + 1]

\* The character with this code point: a capital letter of ASCII, or the name
\* of a character outside ASCII, of four hexadecimal digits at least
charOf(cp) ==
    IF cp \in 65..90 THEN UpperCase[cp - 64]
    ELSE LET digits == hexText(cp)
         IN "U+" \o (IF Len(digits) < 4 THEN SubSeq("000", 1, 4 - Len(digits)) ELSE "")
                 \o digits

\* strings.ToUpper: every letter that has an upper-case form is mapped to it
\* (unicode.ToUpper on each character), the letters a-z and those of the
\* case ranges
ToUpper(s) ==
    LET toUpper(c) ==
            IF Len(c) = 1
            THEN IF \E k \in 1..26 : LowerCase[k] = c
                 THEN UpperCase[CHOOSE k \in 1..26 : LowerCase[k] = c]
                 ELSE c
            ELSE IF c = VT THEN c
            ELSE LET cp == codePoint(c)
                     hits == {k \in 1..Len(CaseRanges) :
                                 /\ CaseRanges[k][1] <= cp
                                 /\ cp <= CaseRanges[k][2]
                                 /\ (cp - CaseRanges[k][1]) % CaseRanges[k][3] = 0}
                 IN IF hits = {} THEN c
                    ELSE charOf(cp + CaseRanges[CHOOSE k \in hits : TRUE][4])
    IN [n \in 1..Len(s) |-> toUpper(s[n])]

\* fmt.Sprintf("\"<field>: %s\\n\"", value), the field given with its quote and colon
HeaderLine(field, value) == field \o <<SP>> \o value \o <<BS, "n", QT>>

copyInit == [newLines |-> <<>>, inHeader |-> TRUE]

\* Lines 961-993: one line of the template
copyLine(st, lines, n, targetLang, now) ==
    LET line == lines[n]
        trimmed == TrimSpace(line)
    IN
    IF st.inHeader /\ Contains(line, litLanguage)
    THEN [st EXCEPT !.newLines = Append(@, HeaderLine(litLanguage, targetLang))]
    ELSE IF st.inHeader /\ Contains(line, litLanguageTeam)
    THEN [st EXCEPT !.newLines = Append(@, HeaderLine(litLanguageTeam, ToUpper(targetLang)))]
    ELSE IF st.inHeader /\ Contains(line, litRevisionDate)
    THEN [st EXCEPT !.newLines = Append(@, HeaderLine(litRevisionDate, now))]
    ELSE LET leaves ==
                 /\ st.inHeader
                 /\ n > 1
                 /\ trimmed = <<>>
                 /\ n < Len(lines)
                 /\ ~HasPrefix(TrimSpace(lines[n + 1]), <<QT>>)
                 /\ TrimSpace(lines[n + 1]) # <<>>
         IN [newLines |-> Append(st.newLines, line),
             inHeader |-> st.inHeader /\ ~leaves]

\* The loop of lines 961-993; clock[n] is what time.Now().Format gives when
\* line n reads the clock (line 978), which only a PO-Revision-Date line of
\* the header does
RECURSIVE copyScan(_, _, _, _, _)
copyScan(st, lines, n, targetLang, clock) ==
    IF n > Len(lines) THEN st
    ELSE copyScan(copyLine(st, lines, n, targetLang, clock[n]), lines, n + 1, targetLang,
                  clock)

\* The lines copyPotToPo writes to the new PO file
copyPotToPo(lines, targetLang, clock) ==
    copyScan(copyInit, lines, 1, targetLang, clock).newLines

(***************************************************************************)
(* updatePotLanguage.                                                      *)
(***************************************************************************)
litContentType ==
    <<QT, "C", "o", "n", "t", "e", "n", "t", "-", "T", "y", "p", "e", ":">>

\* The index of the first line that holds the marker, 0 when none does
FirstWith(lines, marker) ==
    LET found == {n \in 1..Len(lines) : Contains(lines[n], marker)} IN
    IF found = {} THEN 0 ELSE CHOOSE n \in found : \A m \in found : n <= m

\* Lines 912-945: the lines updatePotLanguage writes, or the error when the
\* file has neither a Language nor a Content-Type line
updatePotLanguage(lines, language) ==
    LET i == FirstWith(lines, litLanguage)
        j == FirstWith(lines, litContentType)
        new == HeaderLine(litLanguage, language)
    IN IF i > 0 THEN [ok |-> TRUE, lines |-> [lines EXCEPT ![i] = new]]
       ELSE IF j > 0
       THEN [ok |-> TRUE,
             lines |-> SubSeq(lines, 1, j) \o <<new>> \o SubSeq(lines, j + 1, Len(lines))]
       ELSE [ok |-> FALSE, lines |-> lines]

(***************************************************************************)
(* The inputs: template and target files built from entry blocks.          *)
(***************************************************************************)
MaxPotEntries == 2
MaxPoEntries == 2
MaxRuns == 2

cMsgid(text) == litMsgidSp \o <<QT>> \o text \o <<QT>>
cMsgstr(text) == litMsgstrSp \o <<QT>> \o text \o <<QT>>
cQuoted(text) == <<QT>> \o text \o <<QT>>
cComment(text) == <<"#", ":", SP>> \o text

PotHeader ==
    <<litEmptyMsgid, litEmptyMsgstr,
      cQuoted(<<"L", "a", "n", "g", "u", "a", "g", "e", ":", SP, "e", "n", BS, "n">>)>>

PoHeader ==
    <<litEmptyMsgid, litEmptyMsgstr,
      cQuoted(<<"L", "a", "n", "g", "u", "a", "g", "e", ":", SP, "e", "s", BS, "n">>)>>

\* Template entries, in the order in which a template lists them: a key with
\* a comment, a key without, a key written over two lines, a key that holds
\* an escaped backslash
PotBlocks ==
    << <<cComment(<<"1">>), cMsgid(<<"a">>), litEmptyMsgstr>>,
       <<cMsgid(<<"b">>), litEmptyMsgstr>>,
       <<cComment(<<"3">>), cMsgid(<<"a">>), cQuoted(<<"b">>), litEmptyMsgstr>>,
       <<cComment(<<"4">>), cMsgid(<<"c", BS, BS>>), litEmptyMsgstr>> >>

\* Entries of a target file, in another order than the template's: a key
\* foreign to the template, a translation written on continuation lines, a
\* comment between msgid and msgstr, a key written over two lines, a
\* translated key, an untranslated key
PoBlocks ==
    << <<cComment(<<"9">>), cMsgid(<<"z">>), cMsgstr(<<"x">>)>>,
       <<cMsgid(<<"b">>), litEmptyMsgstr, cQuoted(<<"y", BS, "n">>), cQuoted(<<"w">>)>>,
       <<cMsgid(<<"b">>), <<"#", SP, "t">>, litEmptyMsgstr>>,
       <<cMsgid(<<"a">>), cQuoted(<<"b">>), litEmptyMsgstr>>,
       <<cComment(<<"1">>), cMsgid(<<"a">>), cMsgstr(<<"x", BS, BS>>)>>,
       <<cMsgid(<<"a">>), litEmptyMsgstr>> >>

\* The file made of a header and entry blocks, each after a blank line, with
\* a final newline
FileOf(header, blocks) ==
    header \o Flatten([n \in 1..Len(blocks) |-> <<<<>>>> \o blocks[n]]) \o <<<<>>>>

\* The sequences of at most max indices of a catalog of n blocks
IndexSeqs(n, max) == UNION {[1..k -> 1..n] : k \in 0..max}

Increasing(q) == \A i, j \in 1..Len(q) : i < j => q[i] < q[j]

\* The key of an entry block: what the template parser reads in it
KeysOfLines(lines) == DOMAIN parsePotFile(lines).entries

PotBlockKeys == [n \in 1..Len(PotBlocks) |-> KeysOfLines(PotBlocks[n])]

PoBlockKeys == [n \in 1..Len(PoBlocks) |-> KeysOfLines(PoBlocks[n])]

DistinctKeys(keys, q) == \A i, j \in 1..Len(q) : i # j => keys[q[i]] # keys[q[j]]

PotFiles ==
    {FileOf(PotHeader, [n \in 1..Len(q) |-> PotBlocks[q[n]]]) :
        q \in {r \in IndexSeqs(Len(PotBlocks), MaxPotEntries) :
                  Increasing(r) /\ DistinctKeys(PotBlockKeys, r)}}

PoFiles ==
    {FileOf(PoHeader, [n \in 1..Len(q) |-> PoBlocks[q[n]]]) :
        q \in {r \in IndexSeqs(Len(PoBlocks), MaxPoEntries) :
                  Increasing(r) /\ DistinctKeys(PoBlockKeys, r)}}

\* What the translation backend can answer to one call
BackendTexts == {<<"X">>, <<"Y", NL, QT>>}

Failure == [ok |-> FALSE, text |-> <<>>]

BackendResults == {[ok |-> TRUE, text |-> t] : t \in BackendTexts} \cup {Failure}

\* The --domain flag, left at its default (line 33)
domain == <<"d", "e", "f", "a", "u", "l", "t">>

\* The names of the files of the directory, as Go strings: the template
\* (line 77) and PO files of the domain
potFile == domain \o <<".", "p", "o", "t">>
poFileEs == domain \o <<"_", "e", "s", ".", "p", "o">>
poFileNone == domain \o <<"_", ".", "p", "o">>
poFileDe == domain \o <<"_", "d", "e", ".", "p", "o">>
poFilePtBr == domain \o <<"_", "p", "t", "_", "B", "R", ".", "p", "o">>

\* A header without a Language line
BareHeader == <<litEmptyMsgid, litEmptyMsgstr>>

\* The templates and the target files of a batch of two files
BatchPotFiles ==
    {FileOf(PotHeader, <<PotBlocks[1]>>), FileOf(PotHeader, <<PotBlocks[1], PotBlocks[2]>>)}

BatchPoFiles ==
    {FileOf(PoHeader, <<PoBlocks[6]>>), FileOf(BareHeader, <<PoBlocks[6]>>),
     FileOf(PoHeader, <<PoBlocks[1]>>)}

(***************************************************************************)
(* The state.                                                              *)
(***************************************************************************)
VARIABLES
    disk,               \* file name -> lines of the file
    rewriteMode,        \* the --rewrite flag
    addLang,            \* the --add-lang flag, empty when not given
    sourceLang,         \* the --source-lang flag, empty when not given
    started,            \* history: the disk when the run started
    unreadable,         \* the PO files that cannot be opened or read
    unwritable,         \* the PO files that cannot be written
    slept,              \* history: the loop slept after the last backend call
    input,              \* the argument of a function applied on its own
    output,             \* what that function returned
    poFiles,            \* what findPoFiles returned, empty before line 153
    pc,                 \* where main is
    interrupted,        \* the flag the signal handler sets
    potEntries,         \* the parsed template
    fileIdx,            \* the index of the range over poFiles
    lines,              \* the lines translatePoFile works on
    missingMsgids,      \* the entries translatePoFile appended
    headerLines,        \* rewritePoFile: the header of the old file
    existingTranslations, \* rewritePoFile: the translations of the old file
    needsTranslation,   \* the keys of the translation loop
    idx,                \* the index of the translation loop
    translations,       \* the translations obtained in this call
    translatedCount,    \* the calls that succeeded in this call
    totalTranslated,    \* main's sum over the files
    exitCode,           \* the exit code, -1 while the process runs
    run,                \* how many times the program was started
    before,             \* history: the file as the current call read it
    sent,               \* history: the keys sent to the backend by the current call
    returned,           \* history: what the last finished call returned
    intrAt,             \* history: where the run was when the flag was set
    prev                \* history: the previous run of the program

vars ==
    <<disk, rewriteMode, addLang, sourceLang, started, unreadable, unwritable, slept,
      input, output, poFiles, pc, interrupted, potEntries, fileIdx, lines,
      missingMsgids, headerLines, existingTranslations, needsTranslation, idx,
      translations, translatedCount, totalTranslated, exitCode, run, before, sent,
      returned, intrAt, prev>>

\* The flags and the surroundings of a run
flagVars ==
    <<rewriteMode, addLang, sourceLang, started, unreadable, unwritable, input, output>>

mainVars == <<flagVars, slept, poFiles>>

callVars ==
    <<lines, missingMsgids, headerLines, existingTranslations, needsTranslation, idx,
      translations, translatedCount, before, sent>>

\* Line 121: the file --add-lang creates, with the code in its name
newPoFile == domain \o <<"_">> \o addLang \o <<".", "p", "o">>

\* filepath.Base of a file of the directory: its name without the directory
Base(name) == name

\* No value yet, for the history variables
None == [none |-> TRUE]

NoCall ==
    /\ lines = <<>>
    /\ missingMsgids = <<>>
    /\ headerLines = <<>>
    /\ existingTranslations = EmptyMap
    /\ needsTranslation = <<>>
    /\ idx = 1
    /\ translations = EmptyMap
    /\ translatedCount = 0
    /\ before = <<>>
    /\ sent = <<>>

ResetCall ==
    /\ lines' = <<>>
    /\ missingMsgids' = <<>>
    /\ headerLines' = <<>>
    /\ existingTranslations' = EmptyMap
    /\ needsTranslation' = <<>>
    /\ idx' = 1
    /\ translations' = EmptyMap
    /\ translatedCount' = 0
    /\ before' = <<>>
    /\ sent' = <<>>

\* What a run starts with, whatever its files and flags
InitRun ==
    /\ input = None
    /\ output = None
    /\ pc = "start"
    /\ interrupted = FALSE
    /\ potEntries = EmptyMap
    /\ fileIdx = 1
    /\ NoCall
    /\ totalTranslated = 0
    /\ exitCode = -1
    /\ run = 1
    /\ returned = None
    /\ intrAt = None
    /\ prev = None

Init ==
    /\ \E pot \in PotFiles, po \in PoFiles :
           disk = (potFile :> pot) @@ (poFileEs :> po)
    /\ rewriteMode \in BOOLEAN
    /\ addLang = <<>>
    /\ sourceLang = <<>>
    /\ started = disk
    /\ unreadable = {}
    /\ unwritable = {}
    /\ slept = FALSE
    /\ poFiles = <<>>
    /\ InitRun

\* A batch of two target files in the order of the glob of findPoFiles
InitBatch ==
    /\ \E pot \in BatchPotFiles, po1 \in BatchPoFiles, po2 \in BatchPoFiles :
           disk = (potFile :> pot) @@ (poFileNone :> po1) @@ (poFileEs :> po2)
    /\ rewriteMode \in BOOLEAN
    /\ addLang = <<>>
    /\ sourceLang = <<>>
    /\ started = disk
    /\ unreadable = {}
    /\ unwritable = {}
    /\ slept = FALSE
    /\ poFiles = <<>>
    /\ InitRun

(***************************************************************************)
(* The signal handler's goroutine.                                         *)
(***************************************************************************)
\* The flag is a plain bool that the handler's goroutine writes and main reads
\* without synchronisation: the action is the moment from which main's reads
\* see the write, which can come at any point of the run.
\* A signal that also drops the backend call in flight
InterruptAborts ==
    /\ pc # "exit"
    /\ ~interrupted
    /\ interrupted' = TRUE
    /\ intrAt' = [pc |-> pc, translatedCount |-> translatedCount]
    /\ pc' = (IF pc = "sync_call" THEN "sync_loop"
              ELSE IF pc = "rewrite_call" THEN "rewrite_loop" ELSE pc)
    /\ UNCHANGED <<disk, mainVars, potEntries, fileIdx, callVars, totalTranslated,
                   exitCode, run, returned, prev>>

\* Lines 206-214: the signal handler's goroutine sets the flag
Interrupt ==
    /\ pc # "exit"
    /\ ~interrupted
    /\ interrupted' = TRUE
    /\ intrAt' = [pc |-> pc, translatedCount |-> translatedCount]
    /\ UNCHANGED <<disk, mainVars, pc, potEntries, fileIdx, callVars, totalTranslated,
                   exitCode, run, returned, prev>>

(***************************************************************************)
(* main.                                                                   *)
(***************************************************************************)
\* A panic ends the process with exit code 2
Panic ==
    /\ pc' = "exit"
    /\ exitCode' = 2

\* The characters of ASCII from the space to the tilde, in the order of
\* their codes (the grave accent is written by its name)
Printable ==
    <<SP, "!", QT, "#", "$", "%", "&", "'", "(", ")", "*", "+", ",", "-", ".", "/",
      "0", "1", "2", "3", "4", "5", "6", "7", "8", "9", ":", ";", "<", "=", ">", "?", "@",
      "A", "B", "C", "D", "E", "F", "G", "H", "I", "J", "K", "L", "M", "N", "O", "P", "Q",
      "R", "S", "T", "U", "V", "W", "X", "Y", "Z", "[", BS, "]", "^", "_", "U+0060",
      "a", "b", "c", "d", "e", "f", "g", "h", "i", "j", "k", "l", "m", "n", "o", "p", "q",
      "r", "s", "t", "u", "v", "w", "x", "y", "z", "{", "|", "}", "~">>

\* The code point of a character; the bytes of two Go strings compare as
\* their code points do
charCode(c) ==
    IF c = TAB THEN 9
    ELSE IF c = NL THEN 10
    ELSE IF c = VT THEN 11
    ELSE IF c = FF THEN 12
    ELSE IF c = CR THEN 13
    ELSE IF Len(c) > 1 THEN codePoint(c)
    ELSE 31 + (CHOOSE k \in 1..Len(Printable) : Printable[k] = c)

\* a < b on Go strings, the order of sort.Strings
LessString(a, b) ==
    \E k \in 1..(Len(b)) :
        /\ k <= Len(a) + 1
        /\ \A m \in 1..(k - 1) : a[m] = b[m]
        /\ k <= Len(a) => charCode(a[k]) < charCode(b[k])

\* sort.Strings on the names filepath.Glob has found (its last step)
RECURSIVE SortStrings(_)
SortStrings(names) ==
    IF names = {} THEN <<>>
    ELSE LET first == CHOOSE a \in names : \A b \in names \ {a} : LessString(a, b)
         IN <<first>> \o SortStrings(names \ {first})

\* findPoFiles: the files of the directory whose name the pattern
\* <domain>_*.po matches, in the order of filepath.Glob
findPoFiles(d) ==
    LET prefix == domain \o <<"_">>
        suffix == <<".", "p", "o">>
    IN SortStrings({name \in DOMAIN d :
                       /\ Len(name) >= Len(prefix) + Len(suffix)
                       /\ HasPrefix(name, prefix)
                       /\ HasSuffix(name, suffix)})

\* main up to the loop over the PO files
MainStart ==
    /\ pc = "start"
    /\ IF potFile \notin DOMAIN disk
       THEN \* lines 78-82: no template
            /\ pc' = "exit"
            /\ exitCode' = 1
            /\ UNCHANGED <<disk, potEntries, poFiles>>
       ELSE LET r == parsePotFile(disk[potFile])
                detected == detectedSourceLang(disk[potFile])
                updated == updatePotLanguage(disk[potFile], sourceLang)
            IN
            IF r.crashed
            THEN Panic /\ UNCHANGED <<disk, potEntries, poFiles>>
            ELSE IF r.err
            THEN \* lines 89-92: the template cannot be parsed
                 /\ pc' = "exit"
                 /\ exitCode' = 1
                 /\ UNCHANGED <<disk, potEntries, poFiles>>
            ELSE IF detected = <<>> /\ sourceLang = <<>>
            THEN \* lines 96-100: no source language
                 /\ pc' = "exit"
                 /\ exitCode' = 1
                 /\ UNCHANGED <<disk, potEntries, poFiles>>
            ELSE /\ potEntries' = r.entries
                 \* lines 101-107: the flag's language is written to the template
                 /\ IF detected = <<>> /\ updated.ok
                    THEN disk' = [disk EXCEPT ![potFile] = JoinedLines(updated.lines)]
                    ELSE UNCHANGED disk
                 /\ IF addLang # <<>>
                    THEN /\ pc' = "addlang"
                         /\ UNCHANGED <<exitCode, poFiles>>
                    ELSE \* lines 152-162: the PO files of the directory; without
                         \* one the program ends with 0 and does not read the flag
                         /\ poFiles' = findPoFiles(disk)
                         /\ IF findPoFiles(disk) = <<>>
                            THEN pc' = "exit" /\ exitCode' = 0
                            ELSE pc' = "files" /\ UNCHANGED exitCode
    /\ UNCHANGED <<flagVars, slept, interrupted, fileIdx, callVars, totalTranslated, run,
                   returned, intrAt, prev>>

\* The loop over the PO files ends, or breaks on the flag; main is in the loop
\* only when findPoFiles returned a file
MainExit ==
    /\ pc = "files"
    /\ poFiles # <<>>
    /\ fileIdx > Len(poFiles) \/ interrupted
    /\ pc' = "exit"
    /\ exitCode' = IF interrupted THEN 130 ELSE 0
    /\ UNCHANGED <<disk, mainVars, interrupted, potEntries, fileIdx, callVars,
                   totalTranslated, run, returned, intrAt, prev>>

\* The file the current call of translatePoFile or rewritePoFile works on
CallFile == IF addLang # <<>> THEN newPoFile ELSE poFiles[fileIdx]

\* Lines 175-179: the file cannot be opened (360-363) or its target language
\* cannot be determined, and the loop continues with the next file
LanguageKnown ==
    /\ poFiles[fileIdx] \notin unreadable
    /\ getTargetLanguage(disk[poFiles[fileIdx]], Base(poFiles[fileIdx])).ok

\* The same step without the poll of the flag of lines 170-173
SkipNoPoll ==
    /\ pc = "files"
    /\ fileIdx <= Len(poFiles)
    /\ ~LanguageKnown
    /\ fileIdx' = fileIdx + 1
    /\ UNCHANGED <<disk, mainVars, pc, interrupted, potEntries, callVars, totalTranslated,
                   exitCode, run, returned, intrAt, prev>>

Skip ==
    /\ pc = "files"
    /\ fileIdx <= Len(poFiles)
    /\ ~interrupted
    /\ ~LanguageKnown
    /\ fileIdx' = fileIdx + 1
    /\ UNCHANGED <<disk, mainVars, pc, interrupted, potEntries, callVars, totalTranslated,
                   exitCode, run, returned, intrAt, prev>>

\* main after a call of translatePoFile or rewritePoFile returned `translated`;
\* what the call read and obtained stays in the state as history
Return(translated) ==
    /\ returned' = [file |-> CallFile, translated |-> translated, error |-> FALSE,
                    \* lines 891-900: what rewritePoFile reports as removed
                    removed |-> IF rewriteMode
                                THEN removedCount(potEntries, existingTranslations)
                                ELSE 0]
    /\ IF addLang # <<>>
       THEN \* lines 141-149: main prints the count and exits
            /\ pc' = "exit"
            /\ exitCode' = 0
            /\ UNCHANGED <<totalTranslated, fileIdx>>
       ELSE /\ totalTranslated' = totalTranslated + translated
            /\ fileIdx' = fileIdx + 1
            /\ pc' = "files"
            /\ UNCHANGED exitCode

\* An error return that adds the translations of the failed call to the total
ReturnErrorCounted ==
    /\ returned' = [file |-> CallFile, translated |-> 0, error |-> TRUE, removed |-> 0]
    /\ IF addLang # <<>>
       THEN /\ pc' = "exit"
            /\ exitCode' = 1
            /\ UNCHANGED <<totalTranslated, fileIdx>>
       ELSE /\ totalTranslated' = totalTranslated + translatedCount
            /\ fileIdx' = fileIdx + 1
            /\ pc' = "files"
            /\ UNCHANGED exitCode

\* main after a call of translatePoFile or rewritePoFile returned an error
\* (a write that failed: lines 477-479, 663-667, 887-889)
ReturnError ==
    /\ returned' = [file |-> CallFile, translated |-> 0, error |-> TRUE, removed |-> 0]
    /\ IF addLang # <<>>
       THEN \* lines 142-145
            /\ pc' = "exit"
            /\ exitCode' = 1
            /\ UNCHANGED <<totalTranslated, fileIdx>>
       ELSE \* lines 190-193
            /\ fileIdx' = fileIdx + 1
            /\ pc' = "files"
            /\ UNCHANGED <<totalTranslated, exitCode>>

\* The program is started again on the files the previous run left
Restart ==
    /\ pc = "exit"
    /\ run < MaxRuns
    /\ run' = run + 1
    /\ prev' = [disk |-> disk, exitCode |-> exitCode, totalTranslated |-> totalTranslated]
    /\ pc' = "start"
    /\ interrupted' = FALSE
    /\ potEntries' = EmptyMap
    /\ fileIdx' = 1
    /\ ResetCall
    /\ totalTranslated' = 0
    /\ exitCode' = -1
    /\ returned' = None
    /\ intrAt' = None
    /\ started' = disk
    /\ slept' = FALSE
    /\ poFiles' = <<>>
    /\ UNCHANGED <<disk, rewriteMode, addLang, sourceLang, unreadable, unwritable, input,
                   output>>

\* Templates for --add-lang: a header with Language, Language-Team and
\* PO-Revision-Date lines, alone, after a comment, or after a comment block
\* that a blank line separates from it
FullHeader ==
    <<litEmptyMsgid, litEmptyMsgstr,
      cQuoted(<<"L", "a", "n", "g", "u", "a", "g", "e", ":", SP, "e", "n", BS, "n">>),
      cQuoted(<<"L", "a", "n", "g", "u", "a", "g", "e", "-", "T", "e", "a", "m", ":", SP, "E", BS, "n">>),
      cQuoted(<<"P", "O", "-", "R", "e", "v", "i", "s", "i", "o", "n", "-", "D", "a", "t", "e", ":", SP, "1", BS, "n">>)>>

HeaderPrefixes == {<<>>, <<<<"#", SP, "T">>>>, <<<<"#", SP, "T">>, <<>>>>}

\* An entry whose key holds the Language marker
LanguageBlock == <<cMsgid(<<"L", "a", "n", "g", "u", "a", "g", "e", ":", SP, "x">>), litEmptyMsgstr>>

AddLangBlocks == <<PotBlocks[1], PotBlocks[2], LanguageBlock>>

\* A header in which a second PO-Revision-Date line follows the first
TwoDateHeader ==
    FullHeader
        \o <<cQuoted(<<"P", "O", "-", "R", "e", "v", "i", "s", "i", "o", "n", "-", "D", "a", "t", "e", ":", SP, "2", BS, "n">>)>>

AddLangPotFiles ==
    {prefix \o FileOf(FullHeader, [n \in 1..Len(q) |-> AddLangBlocks[q[n]]]) :
        prefix \in HeaderPrefixes,
        q \in {r \in IndexSeqs(Len(AddLangBlocks), MaxPotEntries) : Increasing(r)}}
        \cup {FileOf(TwoDateHeader, <<PotBlocks[1]>>)}

\* The --add-lang codes: a 2-letter code, codes that are not, and a letter
\* of two bytes
AddLangCodes == {<<"d", "e">>, <<"d", "e", "u">>, <<"a", NL>>, <<"U+00E9">>}

\* What time.Now().Format gives at line 979, the earlier text first
Timestamps == <<<<"2", "0", "2", "6">>, <<"2", "0", "2", "7">>>>

\* The readings of the clock during a copy of n lines: the clock does not go
\* back, and it may move on between two lines
Clocks(n) ==
    {[m \in 1..n |-> Timestamps[IF m < k THEN 1 ELSE 2]] : k \in 1..(n + 1)}

\* --add-lang without the test of the destination (lines 123-127)
AddLangCreateOverwrite ==
    /\ pc = "addlang"
    /\ IF byteLen(addLang) # 2 \/ newPoFile \in unwritable
       THEN /\ pc' = "exit"
            /\ exitCode' = 1
            /\ UNCHANGED disk
       ELSE /\ \E clock \in Clocks(Len(disk[potFile])) :
                  disk' = (newPoFile :>
                               JoinedLines(copyPotToPo(disk[potFile], addLang, clock)))
                              @@ disk
            /\ pc' = "addlang_created"
            /\ UNCHANGED exitCode
    /\ UNCHANGED <<mainVars, interrupted, potEntries, fileIdx, callVars, totalTranslated,
                   run, returned, intrAt, prev>>

\* Lines 116-138: --add-lang checks the code and the destination, then copies
\* the template to the new file; when the new file cannot be written
\* copyPotToPo fails and nothing is created (lines 133-136)
AddLangCreate ==
    /\ pc = "addlang"
    /\ IF byteLen(addLang) # 2 \/ newPoFile \in DOMAIN disk \/ newPoFile \in unwritable
       THEN /\ pc' = "exit"
            /\ exitCode' = 1
            /\ UNCHANGED disk
       ELSE /\ \E clock \in Clocks(Len(disk[potFile])) :
                  disk' = disk @@ (newPoFile :>
                                       JoinedLines(copyPotToPo(disk[potFile], addLang, clock)))
            /\ pc' = "addlang_created"
            /\ UNCHANGED exitCode
    /\ UNCHANGED <<mainVars, interrupted, potEntries, fileIdx, callVars, totalTranslated,
                   run, returned, intrAt, prev>>

(***************************************************************************)
(* translatePoFile, step by step: up to the translation loop, one backend  *)
(* call at a time, and the write of the translations.                      *)
(***************************************************************************)
\* strings.Join and os.WriteFile (lines 475-476, 664-665, 886-887, 944-945,
\* 996-997)
WriteFile(name, newLines) == disk' = [disk EXCEPT ![name] = JoinedLines(newLines)]

\* Lines 397-549: read, add the missing entries, find what needs translation
SyncBegin ==
    /\ \/ /\ pc = "files"
          /\ fileIdx <= Len(poFiles)
          /\ ~interrupted
          /\ LanguageKnown
          /\ ~rewriteMode
       \/ pc = "addlang_created"
    /\ LET poFile == CallFile
           content == disk[poFile]
           first == existingScan(existingInit, content, 1)
       IN
       IF first.crashed
       THEN Panic /\ ResetCall /\ UNCHANGED <<disk, totalTranslated, fileIdx, returned>>
       ELSE \E order \in Orders(MissingSet(potEntries, first.existingMsgids)) :
              LET added == AppendMissing(content, order, potEntries)
                  second == needsScan(needsInit, added, 1, potEntries)
                  \* lines 477-479: the write of the added entries fails
                  failed == Len(order) > 0 /\ poFile \in unwritable
              IN
              /\ IF Len(order) > 0 /\ ~failed
                 THEN WriteFile(poFile, added)
                 ELSE UNCHANGED disk
              /\ before' = content
              /\ missingMsgids' = order
              /\ translations' = EmptyMap
              /\ translatedCount' = 0
              /\ existingTranslations' = EmptyMap
              /\ lines' = added
              /\ needsTranslation' = IF failed THEN <<>> ELSE second.needsTranslation
              /\ idx' = 1
              /\ sent' = <<>>
              /\ headerLines' = <<>>
              /\ IF failed
                 THEN ReturnError
                 ELSE IF second.crashed
                 THEN Panic /\ UNCHANGED <<totalTranslated, fileIdx, returned>>
                 ELSE IF Len(second.needsTranslation) = 0
                 THEN Return(0)
                 ELSE /\ pc' = "sync_loop"
                      /\ UNCHANGED <<totalTranslated, fileIdx, returned, exitCode>>
    /\ UNCHANGED <<mainVars, interrupted, potEntries, run, intrAt, prev>>

\* The loop of lines 553-564 without the poll of the flag
SyncCallNoPoll ==
    /\ pc = "sync_loop"
    /\ idx <= Len(needsTranslation)
    /\ pc' = "sync_call"
    /\ sent' = Append(sent, needsTranslation[idx])
    /\ UNCHANGED <<disk, mainVars, interrupted, potEntries, fileIdx, lines, missingMsgids,
                   headerLines, existingTranslations, needsTranslation, idx, translations,
                   translatedCount, before, totalTranslated, exitCode, run, returned,
                   intrAt, prev>>

\* Lines 553-564: the loop polls the flag and starts the call for the next key
SyncCall ==
    /\ pc = "sync_loop"
    /\ idx <= Len(needsTranslation)
    /\ ~interrupted
    /\ pc' = "sync_call"
    /\ sent' = Append(sent, needsTranslation[idx])
    /\ UNCHANGED <<disk, mainVars, interrupted, potEntries, fileIdx, lines, missingMsgids,
                   headerLines, existingTranslations, needsTranslation, idx, translations,
                   translatedCount, before, totalTranslated, exitCode, run, returned,
                   intrAt, prev>>

\* What both translation loops do with the backend's answer; time.Sleep of
\* lines 576-578 and 815-817 is taken when the call succeeded, the flag is
\* not set and the count of successes is below the length of the list
Record(result) ==
    /\ IF ~result.ok
       THEN UNCHANGED <<translations, translatedCount>>
       ELSE /\ translations' = Put(translations, needsTranslation[idx], result.text)
            /\ translatedCount' = translatedCount + 1
    /\ slept' = (result.ok /\ ~interrupted /\ translatedCount' < Len(needsTranslation))
    /\ idx' = idx + 1

\* Lines 565-579: the call returns
SyncReturn ==
    /\ pc = "sync_call"
    /\ \E result \in BackendResults : Record(result)
    /\ pc' = "sync_loop"
    /\ UNCHANGED <<disk, flagVars, poFiles, interrupted, potEntries, fileIdx, lines, missingMsgids,
                   headerLines, existingTranslations, needsTranslation, before, sent,
                   totalTranslated, exitCode, run, returned, intrAt, prev>>

\* Lines 581-672: the loop is over or broken; the translations are written
SyncFinish ==
    /\ pc = "sync_loop"
    /\ idx > Len(needsTranslation) \/ interrupted
    /\ IF translatedCount = 0
       THEN Return(0) /\ UNCHANGED disk
       ELSE LET third == patchScan(patchInit, lines, 1, translations) IN
            IF third.crashed
            THEN Panic /\ UNCHANGED <<disk, totalTranslated, fileIdx, returned>>
            ELSE IF CallFile \in unwritable
            THEN \* lines 663-667
                 ReturnError /\ UNCHANGED disk
            ELSE WriteFile(CallFile, third.newLines) /\ Return(translatedCount)
    /\ UNCHANGED <<mainVars, interrupted, potEntries, callVars, run, intrAt, prev>>

(***************************************************************************)
(* rewritePoFile, step by step.                                            *)
(***************************************************************************)
\* Lines 676-790: read the old file, find what needs translation
RewriteBegin ==
    /\ pc = "files"
    /\ fileIdx <= Len(poFiles)
    /\ ~interrupted
    /\ LanguageKnown
    /\ rewriteMode
    /\ LET content == disk[poFiles[fileIdx]]
           old == rewriteExtract(content)
       IN
       IF old.crashed
       THEN Panic /\ ResetCall
       ELSE \E order \in Orders(RewriteNeedsSet(potEntries, old.existingTranslations)) :
              /\ before' = content
              /\ lines' = content
              /\ headerLines' = old.headerLines
              /\ existingTranslations' = old.existingTranslations
              /\ needsTranslation' = order
              /\ idx' = 1
              /\ translations' = EmptyMap
              /\ translatedCount' = 0
              /\ sent' = <<>>
              /\ missingMsgids' = <<>>
              /\ pc' = "rewrite_loop"
              /\ UNCHANGED exitCode
    /\ UNCHANGED <<disk, mainVars, interrupted, potEntries, fileIdx, totalTranslated, run,
                   returned, intrAt, prev>>

\* Lines 792-803
RewriteCall ==
    /\ pc = "rewrite_loop"
    /\ idx <= Len(needsTranslation)
    /\ ~interrupted
    /\ pc' = "rewrite_call"
    /\ sent' = Append(sent, needsTranslation[idx])
    /\ UNCHANGED <<disk, mainVars, interrupted, potEntries, fileIdx, lines, missingMsgids,
                   headerLines, existingTranslations, needsTranslation, idx, translations,
                   translatedCount, before, totalTranslated, exitCode, run, returned,
                   intrAt, prev>>

\* Lines 804-818
RewriteReturn ==
    /\ pc = "rewrite_call"
    /\ \E result \in BackendResults : Record(result)
    /\ pc' = "rewrite_loop"
    /\ UNCHANGED <<disk, flagVars, poFiles, interrupted, potEntries, fileIdx, lines, missingMsgids,
                   headerLines, existingTranslations, needsTranslation, before, sent,
                   totalTranslated, exitCode, run, returned, intrAt, prev>>

\* Lines 823-903: the file is rebuilt from the template and written.  The
\* loop's list and index are gone when the call returns.
RewriteFinish ==
    /\ pc = "rewrite_loop"
    /\ idx > Len(needsTranslation) \/ interrupted
    /\ IF poFiles[fileIdx] \in unwritable
       THEN \* lines 887-889
            ReturnError /\ UNCHANGED disk
       ELSE /\ \E order \in Orders(DOMAIN potEntries) :
                   WriteFile(poFiles[fileIdx],
                             RewrittenLines(headerLines, potEntries, order, translations,
                                            existingTranslations))
            /\ Return(translatedCount)
    /\ needsTranslation' = <<>>
    /\ idx' = 1
    /\ sent' = <<>>
    /\ UNCHANGED <<mainVars, interrupted, potEntries, lines, missingMsgids, headerLines,
                   existingTranslations, translations, translatedCount, before, run,
                   intrAt, prev>>

NextSync ==
    \/ Interrupt
    \/ MainStart
    \/ MainExit
    \/ SyncBegin
    \/ SyncCall
    \/ SyncReturn
    \/ SyncFinish

NextRewrite ==
    \/ Interrupt
    \/ MainStart
    \/ MainExit
    \/ RewriteBegin
    \/ RewriteCall
    \/ RewriteReturn
    \/ RewriteFinish

Next == NextSync \/ NextRewrite

\* One run of the program on one target file, in either mode
Spec == Init /\ [][Next]_vars

\* One run in the default mode (incremental sync)
InitSync == Init /\ rewriteMode = FALSE

SpecSync == InitSync /\ [][NextSync]_vars

\* One run in rewrite mode
InitRewrite == Init /\ rewriteMode = TRUE

SpecRewrite == InitRewrite /\ [][NextRewrite]_vars

\* Two runs of the program in a row
NextSyncTwice == NextSync \/ Restart

SpecSyncTwice == InitSync /\ [][NextSyncTwice]_vars

NextRewriteTwice == NextRewrite \/ Restart

SpecRewriteTwice == InitRewrite /\ [][NextRewriteTwice]_vars

(***************************************************************************)
(* Reading a catalog file the way its format defines it: the yardstick the *)
(* properties below measure the program's output with.  An entry starts at *)
(* a msgid line; its key is that line's text and the text of the quoted    *)
(* lines that follow; its msgstr block is the next msgstr line and the     *)
(* quoted lines that follow it; its comments are the comment lines right   *)
(* before the msgid line.                                                  *)
(***************************************************************************)
IsMsgidLine(line) == HasPrefix(TrimSpace(line), litMsgidSp)

IsMsgstrLine(line) == HasPrefix(TrimSpace(line), litMsgstrSp)

IsQuotedLine(line) == HasPrefix(TrimSpace(line), <<QT>>)

IsCommentLine(line) == HasPrefix(TrimSpace(line), <<"#">>)

RECURSIVE RunEnd(_, _)
RunEnd(file, i) ==
    IF i < Len(file) /\ IsQuotedLine(file[i + 1]) THEN RunEnd(file, i + 1) ELSE i

RECURSIVE CommentStart(_, _)
CommentStart(file, i) ==
    IF i > 1 /\ IsCommentLine(file[i - 1]) THEN CommentStart(file, i - 1) ELSE i

RECURSIVE DecodeRun(_, _, _)
DecodeRun(file, i, j) ==
    IF i > j THEN <<>>
    ELSE extractString(TrimSpace(file[i])) \o DecodeRun(file, i + 1, j)

MsgstrAt(file, idEnd) ==
    LET cand == {s \in (idEnd + 1)..Len(file) :
                    /\ IsMsgstrLine(file[s])
                    /\ \A m \in (idEnd + 1)..(s - 1) :
                           ~IsMsgidLine(file[m]) /\ ~IsMsgstrLine(file[m])}
    IN IF cand = {} THEN 0 ELSE CHOOSE s \in cand : TRUE

EntryAt(file, i) ==
    LET idEnd == RunEnd(file, i)
        s == MsgstrAt(file, idEnd)
        sEnd == IF s = 0 THEN 0 ELSE RunEnd(file, s)
    IN [at |-> i, strAt |-> s, strEnd |-> sEnd,
        key |-> extractString(From(TrimSpace(file[i]), 6)) \o DecodeRun(file, i + 1, idEnd),
        value |-> IF s = 0 THEN <<>>
                  ELSE extractString(From(TrimSpace(file[s]), 7))
                           \o DecodeRun(file, s + 1, sEnd),
        comments |-> SubSeq(file, CommentStart(file, i), i - 1),
        block |-> IF s = 0 THEN <<>> ELSE SubSeq(file, s, sEnd)]

RECURSIVE EntriesFrom(_, _)
EntriesFrom(file, i) ==
    IF i > Len(file) THEN <<>>
    ELSE IF IsMsgidLine(file[i]) THEN <<EntryAt(file, i)>> \o EntriesFrom(file, i + 1)
    ELSE EntriesFrom(file, i + 1)

\* The entries of a file in file order, the header entry (empty key) left out
Entries(file) == SelectSeq(EntriesFrom(file, 1), LAMBDA e : e.key # <<>>)

Range(q) == {q[n] : n \in 1..Len(q)}

KeySeq(file) == [n \in 1..Len(Entries(file)) |-> Entries(file)[n].key]

KeySet(file) == Range(KeySeq(file))

\* The entries of the file that have the key
EntriesOf(file, key) == {e \in Range(Entries(file)) : e.key = key}

\* The keys of the file that have a translation
TranslatedKeys(file) == {e.key : e \in {d \in Range(Entries(file)) : d.value # <<>>}}

\* The file without the msgstr blocks of the keys
RECURSIVE DropBlocks(_, _, _)
DropBlocks(file, blocks, i) ==
    IF i > Len(file) THEN <<>>
    ELSE (IF \E b \in blocks : b[1] <= i /\ i <= b[2] THEN <<>> ELSE <<file[i]>>)
             \o DropBlocks(file, blocks, i + 1)

Strip(file, keys) ==
    DropBlocks(file,
               {<<e.strAt, e.strEnd>> :
                   e \in {d \in Range(Entries(file)) : d.key \in keys /\ d.strAt # 0}},
               1)

\* The order of the template's keys
TemplateOrder == KeySeq(disk[potFile])

Position(q, x) == IF \E n \in 1..Len(q) : q[n] = x THEN CHOOSE n \in 1..Len(q) : q[n] = x ELSE 0

\* The keys of q that the template has come in the template's order
InTemplateOrder(q) ==
    \A i, j \in 1..Len(q) :
        (i < j /\ Position(TemplateOrder, q[i]) # 0 /\ Position(TemplateOrder, q[j]) # 0)
            => Position(TemplateOrder, q[i]) < Position(TemplateOrder, q[j])

\* A call of translatePoFile returned
SyncReturned == ~rewriteMode /\ returned # None

\* A call of rewritePoFile returned
RewriteReturned == rewriteMode /\ returned # None

(***************************************************************************)
(* The properties.                                                         *)
(***************************************************************************)

\* C1: in the incremental sync, an entry of the target file that has a
\* translation, whether written on the msgstr line or on continuation lines
\* after an empty msgstr line, is never sent to the backend, and its msgstr
\* block is in the file the call leaves, line for line.
C1_TranslatedKept ==
    /\ (~rewriteMode /\ pc = "sync_call") => sent[Len(sent)] \notin TranslatedKeys(before)
    /\ SyncReturned =>
           \A e \in Range(Entries(before)) :
               e.value # <<>> =>
                   \E d \in EntriesOf(disk[returned.file], e.key) : d.block = e.block

\* C2: in the incremental sync, every line that is not in the msgstr block
\* of a key that got a translation is in the output exactly once, unchanged
\* and in the same order: the output without those blocks is the file (with
\* the appended entries) without those blocks.
C2_FramePreserved ==
    SyncReturned =>
        Strip(disk[returned.file], DOMAIN translations) = Strip(lines, DOMAIN translations)

\* The entry the sync appends for a template key: a blank line, the
\* template's comment lines (the marker of line 456 when it has none), the
\* msgid, an empty msgstr
ExpectedAdded(key) ==
    LET e == CHOOSE d \in EntriesOf(disk[potFile], key) : TRUE IN
    <<<<>>>> \o (IF e.comments = <<>> THEN <<litAddedFromPot>> ELSE e.comments)
        \o EmitBlock(litMsgidSp, key) \o <<litEmptyMsgstr>>

\* C3: the entries the sync appends are the template keys the target file
\* does not have, each once, each as a blank line, the template's comments,
\* its msgid and an empty msgstr; and every template key is in the file then.
C3_AppendedExactly ==
    (~rewriteMode /\ pc \in {"sync_loop", "sync_call"}) =>
        /\ Range(missingMsgids) = KeySet(disk[potFile]) \ KeySet(before)
        /\ \A i, j \in 1..Len(missingMsgids) : i # j => missingMsgids[i] # missingMsgids[j]
        /\ disk[poFiles[fileIdx]]
              = (IF missingMsgids = <<>> THEN before
                 ELSE (IF before[Len(before)] # <<>> THEN Append(before, <<>>) ELSE before)
                          \o Flatten([n \in 1..Len(missingMsgids) |->
                                         ExpectedAdded(missingMsgids[n])]))
        /\ KeySet(disk[potFile]) \subseteq KeySet(disk[poFiles[fileIdx]])

\* C4: every translation the sync obtained is in the file the call leaves:
\* the key's entry has a msgstr block that decodes to exactly that text.
C4_TranslationsSaved ==
    (SyncReturned /\ returned.translated > 0) =>
        \A key \in DOMAIN translations :
            /\ EntriesOf(disk[returned.file], key) # {}
            /\ \A e \in EntriesOf(disk[returned.file], key) : e.value = translations[key]

\* C5: the keys the sync appends and the keys it sends to the backend come
\* in the order of the template.
C5_TemplateOrder ==
    ~rewriteMode => InTemplateOrder(missingMsgids) /\ InTemplateOrder(needsTranslation)

\* C6: after a run of the sync that ended normally and left no entry
\* without a translation, a second run on the same files appends nothing,
\* calls the backend for nothing, reports zero translations and leaves the
\* file as it was.
C6_SecondRunIdle ==
    (/\ ~rewriteMode
     /\ run = 2
     /\ prev.exitCode = 0
     /\ KeySet(prev.disk[potFile]) \subseteq TranslatedKeys(prev.disk[poFileEs])
     /\ KeySet(prev.disk[poFileEs]) = TranslatedKeys(prev.disk[poFileEs]))
        => /\ missingMsgids = <<>>
           /\ sent = <<>>
           /\ totalTranslated = 0
           /\ disk = prev.disk

\* C7: rewrite mode writes the entries in the order of the template.
C7_RewriteOrder ==
    RewriteReturned => InTemplateOrder(KeySeq(disk[returned.file]))

\* C8: the keys of the file rewrite mode writes are the keys of the
\* template, each once.
C8_RewriteKeys ==
    RewriteReturned =>
        /\ KeySet(disk[returned.file]) = KeySet(disk[potFile])
        /\ Len(KeySeq(disk[returned.file])) = Cardinality(KeySet(disk[potFile]))

\* What the old file has for the key
OldText(key) ==
    IF EntriesOf(before, key) = {} THEN <<>>
    ELSE (CHOOSE e \in EntriesOf(before, key) : TRUE).value

\* C9: in the file rewrite mode writes, the msgstr of every template key is
\* the translation obtained in this run, else the text the old file had for
\* the key, else empty.
C9_RewriteMsgstr ==
    RewriteReturned =>
        \A key \in KeySet(disk[potFile]) :
            \E e \in EntriesOf(disk[returned.file], key) :
                e.value = IF Has(translations, key) THEN translations[key] ELSE OldText(key)

\* C10: when the flag is set between two calls, after k of the n calls of
\* the sync succeeded (0 < k < n), the call returns k and the file has the
\* k translations, the msgstr of the other keys left empty.
C10_CancelKeepsDone ==
    (/\ SyncReturned
     /\ intrAt # None
     /\ intrAt.pc = "sync_loop"
     /\ 0 < intrAt.translatedCount
     /\ intrAt.translatedCount < Len(needsTranslation))
        => /\ returned.translated = intrAt.translatedCount
           /\ Cardinality(DOMAIN translations) = intrAt.translatedCount
           /\ \A key \in Range(needsTranslation) :
                  \E e \in EntriesOf(disk[returned.file], key) :
                      e.value = IF Has(translations, key) THEN translations[key] ELSE <<>>

(***************************************************************************)
(* Functions applied on their own.                                         *)
(***************************************************************************)
\* The variables of a run of the program, which such a function leaves alone
runVars ==
    <<disk, rewriteMode, addLang, sourceLang, started, unreadable, unwritable, slept,
      poFiles, pc, interrupted, potEntries,
      fileIdx, callVars,
      totalTranslated, exitCode, run, returned, intrAt, prev>>

\* No run: only the function's argument
InitFunction(arguments) ==
    /\ disk = <<>>
    /\ rewriteMode = FALSE
    /\ addLang = <<>>
    /\ sourceLang = <<>>
    /\ started = disk
    /\ unreadable = {}
    /\ unwritable = {}
    /\ slept = FALSE
    /\ poFiles = <<>>
    /\ pc = "start"
    /\ interrupted = FALSE
    /\ potEntries = EmptyMap
    /\ fileIdx = 1
    /\ NoCall
    /\ totalTranslated = 0
    /\ exitCode = -1
    /\ run = 1
    /\ returned = None
    /\ intrAt = None
    /\ prev = None
    /\ input \in arguments
    /\ output = None

MaxLen == 3

\* The characters of the texts: a letter, the letter of the \n escape, and the
\* four characters the escaper treats
TextChars == {"a", "n", BS, QT, NL, TAB}

Texts == UNION {[1..k -> TextChars] : k \in 0..MaxLen}

\* escapeString, and the text as lines 466 and 881 put it on disk between quotes
Escape ==
    /\ output = None
    /\ output' = [encoded |-> escapeString(input), written |-> Quoted(input)]
    /\ UNCHANGED <<runVars, input>>

\* extractString on what was written
Extract ==
    /\ output # None
    /\ DOMAIN output = {"encoded", "written"}
    /\ output' = [encoded |-> output.encoded, written |-> output.written,
                  crashed |-> extractPanics(output.written),
                  decoded |-> IF extractPanics(output.written) THEN <<>>
                              ELSE extractString(output.written)]
    /\ UNCHANGED <<runVars, input>>

NextEscaper == Escape \/ Extract

SpecEscaper == InitFunction(Texts) /\ [][NextEscaper]_vars

\* The literals given to extractString on its own: every text between quotes
Literals == {<<QT>> \o t \o <<QT>> : t \in Texts}

\* extractString on a literal
Decode ==
    /\ output = None
    /\ output' = [fn |-> "extractString",
                  crashed |-> extractPanics(input),
                  text |-> IF extractPanics(input) THEN <<>> ELSE extractString(input)]
    /\ UNCHANGED <<runVars, input>>

SpecDecode == InitFunction(Literals) /\ [][Decode]_vars

\* Entries with unbalanced quoting: a msgstr, a msgid and a continuation line
\* whose literal is one lone quote, and a msgid without its closing quote
MalformedBlocks ==
    << <<cMsgid(<<"a">>), litMsgstrSp \o <<QT>>>>,
       <<litMsgidSp \o <<QT>>, litEmptyMsgstr>>,
       <<cMsgid(<<"b">>), <<QT>>, litEmptyMsgstr>>,
       <<litMsgidSp \o <<QT, "d">>, litEmptyMsgstr>> >>

ParseBlocks == PotBlocks \o MalformedBlocks

\* The files given to the parsers on their own
ParseFiles ==
    {FileOf(PotHeader, [n \in 1..Len(q) |-> ParseBlocks[q[n]]]) :
        q \in {r \in IndexSeqs(Len(ParseBlocks), MaxPotEntries) : Increasing(r)}}

\* parsePotFile on the file
ParseTemplate ==
    /\ output = None
    /\ output' = [fn |-> "parsePotFile",
                  crashed |-> parsePotFile(input).crashed,
                  err |-> parsePotFile(input).err,
                  entries |-> parsePotFile(input).entries]
    /\ UNCHANGED <<runVars, input>>

\* The two line scans of translatePoFile (lines 406-431 and 491-524) on the
\* file, with itself as the template
ScanSync ==
    /\ output = None
    /\ LET first == existingScan(existingInit, input, 1)
           second == needsScan(needsInit, input, 1, parsePotFile(input).entries)
       IN output' = [fn |-> "translatePoFile",
                     crashed |-> first.crashed \/ second.crashed,
                     entries |-> EmptyMap]
    /\ UNCHANGED <<runVars, input>>

\* The line scan of rewritePoFile (lines 691-758) on the file
ScanRewrite ==
    /\ output = None
    /\ output' = [fn |-> "rewritePoFile",
                  crashed |-> rewriteExtract(input).crashed,
                  entries |-> EmptyMap]
    /\ UNCHANGED <<runVars, input>>

NextParse == ParseTemplate \/ ScanSync \/ ScanRewrite

SpecParse == InitFunction(ParseFiles) /\ [][NextParse]_vars

\* Target files for rewrite mode: the header alone, under a comment line,
\* under two equal comment lines, or under a comment block and a blank line
RewriteHeaderPrefixes == HeaderPrefixes \cup {<<<<"#", SP, "T">>, <<"#", SP, "T">>>>}

RewriteHeaderPoFiles ==
    {prefix \o FileOf(header, blocks) :
        prefix \in RewriteHeaderPrefixes,
        header \in {PoHeader, FullHeader},
        blocks \in {<<>>, <<PoBlocks[1]>>, <<PoBlocks[6]>>}}

InitRewriteHeader ==
    /\ \E pot \in BatchPotFiles, po \in RewriteHeaderPoFiles :
           disk = (potFile :> pot) @@ (poFileEs :> po)
    /\ rewriteMode = TRUE
    /\ addLang = <<>>
    /\ sourceLang = <<>>
    /\ started = disk
    /\ unreadable = {}
    /\ unwritable = {}
    /\ slept = FALSE
    /\ poFiles = <<>>
    /\ InitRun

SpecRewriteHeader == InitRewriteHeader /\ [][NextRewrite]_vars

\* Target files without a header entry: one entry alone, and no byte at all
HeaderlessPoFiles == {<<cMsgid(<<"a">>), cMsgstr(<<"x">>), <<>>>>, <<<<>>>>}

\* Rewrite mode on every target file, those without a header entry included,
\* with a template of no, one or two entries
InitRewriteObsolete ==
    /\ \E pot \in BatchPotFiles \cup {FileOf(PotHeader, <<>>)},
          po \in PoFiles \cup HeaderlessPoFiles :
           disk = (potFile :> pot) @@ (poFileEs :> po)
    /\ rewriteMode = TRUE
    /\ addLang = <<>>
    /\ sourceLang = <<>>
    /\ started = disk
    /\ unreadable = {}
    /\ unwritable = {}
    /\ slept = FALSE
    /\ poFiles = <<>>
    /\ InitRun

SpecRewriteObsolete == InitRewriteObsolete /\ [][NextRewrite]_vars

\* One run in either mode on every target file, with a template of one or
\* two entries
InitLoops ==
    /\ \E pot \in BatchPotFiles, po \in PoFiles :
           disk = (potFile :> pot) @@ (poFileEs :> po)
    /\ rewriteMode \in BOOLEAN
    /\ addLang = <<>>
    /\ sourceLang = <<>>
    /\ started = disk
    /\ unreadable = {}
    /\ unwritable = {}
    /\ slept = FALSE
    /\ poFiles = <<>>
    /\ InitRun

SpecLoops == InitLoops /\ [][Next]_vars

\* Headers of a template: with a Content-Type line only, and with a Language
\* line that names no language
ContentHeader ==
    <<litEmptyMsgid, litEmptyMsgstr,
      cQuoted(<<"C", "o", "n", "t", "e", "n", "t", "-", "T", "y", "p", "e", ":", SP, "t", BS, "n">>)>>

EmptyLanguageHeader ==
    <<litEmptyMsgid, litEmptyMsgstr,
      cQuoted(<<"L", "a", "n", "g", "u", "a", "g", "e", ":", SP, BS, "n">>)>>

ConfigPotFiles ==
    {FileOf(header, <<PotBlocks[1]>>) :
        header \in {PotHeader, BareHeader, ContentHeader, EmptyLanguageHeader}}

\* The --source-lang flag: not given, or given
SourceLangs == {<<>>, <<"e", "n">>, <<"e", NL>>}

\* A run with any of the flags, the template, the --add-lang destination
\* and other PO files present or not
InitConfig ==
    /\ \E po \in BatchPoFiles :
         \E present \in SUBSET {potFile, poFileDe, poFileEs, poFilePtBr} :
           \E pot \in ConfigPotFiles :
              disk = [name \in present |-> IF name = potFile THEN pot ELSE po]
    /\ rewriteMode = FALSE
    /\ addLang \in {<<>>} \cup AddLangCodes
    /\ sourceLang \in SourceLangs
    /\ started = disk
    /\ unreadable = {}
    /\ unwritable = {}
    /\ slept = FALSE
    /\ poFiles = <<>>
    /\ InitRun

NextConfig == NextSync \/ AddLangCreate

SpecConfig == InitConfig /\ [][NextConfig]_vars

MaxHeaderLines == 3

\* Lines of a header: a language, no language, a language without the \n
\* escape, and the Language-Team line
LanguageLines ==
    << cQuoted(<<"L", "a", "n", "g", "u", "a", "g", "e", ":", SP, "e", "s", BS, "n">>),
       cQuoted(<<"L", "a", "n", "g", "u", "a", "g", "e", ":", SP, BS, "n">>),
       cQuoted(<<"L", "a", "n", "g", "u", "a", "g", "e", ":", SP, "f", "r">>),
       cQuoted(<<"L", "a", "n", "g", "u", "a", "g", "e", "-", "T", "e", "a", "m", ":", SP, "D",
                 BS, "n">>) >>

\* Base names of PO files: with a code, without underscore, with nothing
\* after the underscore, with two underscores
BaseNames ==
    {<<"d", "_", "d", "e", ".", "p", "o">>, <<"d", ".", "p", "o">>,
     <<"d", "_", ".", "p", "o">>, <<"m", "_", "a", "_", "p", "t", ".", "p", "o">>}

TargetLanguageInputs ==
    {[lines |-> FileOf(BareHeader \o [n \in 1..Len(q) |-> LanguageLines[q[n]]],
                       <<PoBlocks[6]>>),
      base |-> base] :
        q \in IndexSeqs(Len(LanguageLines), MaxHeaderLines), base \in BaseNames}

\* getTargetLanguage on a file
GetTargetLanguage ==
    /\ output = None
    /\ LET r == getTargetLanguage(input.lines, input.base)
       IN output' = [fn |-> "getTargetLanguage", ok |-> r.ok, lang |-> r.lang]
    /\ UNCHANGED <<runVars, input>>

SpecTargetLanguage == InitFunction(TargetLanguageInputs) /\ [][GetTargetLanguage]_vars

\* Entries of a template after the header: an entry, an entry whose key is
\* the label "Language:", an entry whose default translation is a Language
\* line, an entry under a comment that quotes a Language line, an entry
\* under a reference comment (#:) that quotes one, and an entry whose
\* default translation is a Language line with a colon in its value
LanguageBodies ==
    { <<>>,
      <<cMsgid(<<"a">>), litEmptyMsgstr>>,
      <<cMsgid(<<"L", "a", "n", "g", "u", "a", "g", "e", ":">>), litEmptyMsgstr>>,
      <<cMsgid(<<"a">>), litEmptyMsgstr,
        cQuoted(<<"L", "a", "n", "g", "u", "a", "g", "e", ":", SP, "p", "t", BS, "n">>)>>,
      <<<<"#", SP>> \o cQuoted(<<"L", "a", "n", "g", "u", "a", "g", "e", ":", SP, "i", "t">>),
        cMsgid(<<"a">>), litEmptyMsgstr>>,
      <<cComment(cQuoted(<<"L", "a", "n", "g", "u", "a", "g", "e", ":", SP, "i", "t", BS, "n">>)),
        cMsgid(<<"a">>), litEmptyMsgstr>>,
      <<cMsgid(<<"a">>), litEmptyMsgstr,
        cQuoted(<<"L", "a", "n", "g", "u", "a", "g", "e", ":", SP, "z", "h", ":", "T", "W", BS,
                  "n">>)>> }

\* A comment line of as many bytes as the scanner's buffer holds
LongLine == [n \in 1..MaxScanTokenSize |-> IF n = 1 THEN "#" ELSE "a"]

\* The templates given to the parser for their language, one of them with
\* a line the scanner cannot hold after its header
SourceLanguageInputs ==
    {FileOf(BareHeader \o [n \in 1..Len(q) |-> LanguageLines[q[n]]],
            IF body = <<>> THEN <<>> ELSE <<body>>) :
        q \in IndexSeqs(Len(LanguageLines), MaxHeaderLines), body \in LanguageBodies}
        \cup {FileOf(BareHeader \o <<LanguageLines[1]>>, <<<<LongLine>>>>)}

\* parsePotFile on a template: the source language it returns
DetectLanguage ==
    /\ output = None
    /\ output' = [fn |-> "sourceLang",
                  crashed |-> parsePotFile(input).crashed,
                  err |-> parsePotFile(input).err,
                  lang |-> detectedSourceLang(input)]
    /\ UNCHANGED <<runVars, input>>

SpecSourceLanguage == InitFunction(SourceLanguageInputs) /\ [][DetectLanguage]_vars

\* Lines of the header of a template: a Language line without a value, a
\* Content-Type line, a Language-Team line, a Language line with a value
TemplateHeaderLines ==
    << cQuoted(<<"L", "a", "n", "g", "u", "a", "g", "e", ":", SP, BS, "n">>),
       cQuoted(<<"C", "o", "n", "t", "e", "n", "t", "-", "T", "y", "p", "e", ":", SP, "t", BS,
                 "n">>),
       cQuoted(<<"L", "a", "n", "g", "u", "a", "g", "e", "-", "T", "e", "a", "m", ":", SP, "D",
                 BS, "n">>),
       cQuoted(<<"L", "a", "n", "g", "u", "a", "g", "e", ":", SP, "e", "s", BS, "n">>) >>

\* An entry whose key is the label "Language:"
LabelBlock == <<cMsgid(<<"L", "a", "n", "g", "u", "a", "g", "e", ":">>), litEmptyMsgstr>>

\* The values of --source-lang given to updatePotLanguage: two language
\* codes, and values that hold a newline, a colon, a closing quote
LanguageCodes ==
    {<<"e", "n">>, <<"p", "t", "_", "B", "R">>, <<"e", NL>>, <<"z", "h", ":", "T", "W">>,
     <<"e", "n", QT>>}

UpdateLanguageInputs ==
    {[lines |-> FileOf(BareHeader \o [n \in 1..Len(q) |-> TemplateHeaderLines[q[n]]],
                       <<block>>),
      language |-> language] :
        q \in IndexSeqs(Len(TemplateHeaderLines), MaxHeaderLines),
        block \in {PotBlocks[1], LabelBlock},
        language \in LanguageCodes}

\* updatePotLanguage on a template, then parsePotFile on what it wrote
UpdateThenParse ==
    /\ output = None
    /\ LET updated == updatePotLanguage(input.lines, input.language)
           \* lines 944-945: the file as it is written and read again
           written == JoinedLines(updated.lines)
       IN output' = [fn |-> "updatePotLanguage",
                     ok |-> updated.ok,
                     lines |-> written,
                     crashed |-> parsePotFile(written).crashed,
                     err |-> parsePotFile(written).err,
                     sourceLang |-> detectedSourceLang(written)]
    /\ UNCHANGED <<runVars, input>>

SpecUpdateLanguage == InitFunction(UpdateLanguageInputs) /\ [][UpdateThenParse]_vars

\* Entries of a template for the parser taken line by line: a key over two
\* lines, a default translation over three lines, a comment with a blank
\* line before the msgid, a comment inside the entry, a comment with a line
\* that is neither entry nor comment before the msgid, two comment lines,
\* an entry without comment, two entries without a blank line between
\* them, the second with its comments and a key over three lines, and an
\* entry whose lines end in a carriage return, its msgid after a form feed
\* and its msgstr after an ideographic space
StepBlocks ==
    << <<cComment(<<"1">>), cMsgid(<<"a">>), cQuoted(<<"b">>), litEmptyMsgstr>>,
       <<cMsgid(<<"c">>), cMsgstr(<<"x">>), cQuoted(<<"y", BS, "n">>), cQuoted(<<"z">>)>>,
       <<cComment(<<"3">>), <<>>, cMsgid(<<"d">>), litEmptyMsgstr>>,
       <<cMsgid(<<"e">>), cComment(<<"4">>), cQuoted(<<"f">>), litEmptyMsgstr>>,
       <<cComment(<<"5">>), <<"x">>, cMsgid(<<"g">>), litEmptyMsgstr>>,
       <<cComment(<<"6">>), <<"#", SP, "t">>, cMsgid(<<"h">>), litEmptyMsgstr>>,
       <<cMsgid(<<"b">>), litEmptyMsgstr>>,
       <<cMsgid(<<"i">>), litEmptyMsgstr, cComment(<<"7">>), cComment(<<"8">>),
         cMsgid(<<"j">>), cQuoted(<<BS, "n">>), cQuoted(<<"k">>), litEmptyMsgstr>>,
       <<cComment(<<"9">>) \o <<CR>>, <<FF>> \o cMsgid(<<"l">>) \o <<CR>>,
         cQuoted(<<"m">>) \o <<CR>>, <<"U+3000">> \o litEmptyMsgstr \o <<CR>>>> >>

StepFiles ==
    {FileOf(PotHeader, [n \in 1..Len(q) |-> StepBlocks[q[n]]]) :
        q \in {r \in IndexSeqs(Len(StepBlocks), MaxPotEntries) : Increasing(r)}}

\* parsePotFile opens the file (lines 250-263)
ParseOpen ==
    /\ output = None
    /\ output' = [fn |-> "scan", at |-> 0, st |-> parseInit]
    /\ UNCHANGED <<runVars, input>>

\* One turn of the loop of parsePotFile (lines 264-319): the next line
ParseStep ==
    /\ output # None
    /\ output.fn = "scan"
    /\ output.at < Len(ScannerLines(input))
    /\ ~output.st.crashed
    /\ output' = [fn |-> "scan", at |-> output.at + 1,
                  st |-> parseLine(output.st, ScannerLines(input)[output.at + 1])]
    /\ UNCHANGED <<runVars, input>>

\* The end of parsePotFile (lines 321-336): the last entry is saved and the
\* header's key deleted
ParseClose ==
    /\ output # None
    /\ output.fn = "scan"
    /\ output.at = Len(ScannerLines(input))
    /\ ~output.st.crashed
    /\ output' = [fn |-> "parsePotFile", crashed |-> FALSE,
                  err |-> scannerErr(input),
                  entries |-> IF scannerErr(input) THEN EmptyMap
                              ELSE Delete(parseSave(output.st), <<>>)]
    /\ UNCHANGED <<runVars, input>>

NextParseSteps == ParseOpen \/ ParseStep \/ ParseClose

SpecParseSteps == InitFunction(StepFiles) /\ [][NextParseSteps]_vars

\* Templates and old target files for the comments of a rewrite: a template
\* comment with a blank line before the msgid; old files whose entries have
\* comments of their own, one without a header entry and one whose first
\* entry follows the header without a blank line
CommentPotFiles == BatchPotFiles \cup {FileOf(PotHeader, <<StepBlocks[3]>>)}

CommentPoFiles ==
    {FileOf(PoHeader, <<PoBlocks[1]>>),
     FileOf(PoHeader, <<PoBlocks[3]>>),
     FileOf(PoHeader, <<PoBlocks[5]>>),
     FileOf(PoHeader, <<PoBlocks[1], PoBlocks[6]>>),
     <<cComment(<<"9">>), cMsgid(<<"a">>), cMsgstr(<<"x">>), <<>>>>,
     PoHeader \o <<cComment(<<"9">>), cMsgid(<<"a">>), cMsgstr(<<"x">>), <<>>>>}

InitRewriteComments ==
    /\ \E pot \in CommentPotFiles, po \in CommentPoFiles :
           disk = (potFile :> pot) @@ (poFileEs :> po)
    /\ rewriteMode = TRUE
    /\ addLang = <<>>
    /\ sourceLang = <<>>
    /\ started = disk
    /\ unreadable = {}
    /\ unwritable = {}
    /\ slept = FALSE
    /\ poFiles = <<>>
    /\ InitRun

SpecRewriteComments == InitRewriteComments /\ [][NextRewrite]_vars

\* A run with --add-lang, the destination present or not, and one that
\* can be created or not
InitAddLang ==
    /\ \E pot \in AddLangPotFiles :
           \/ disk = (potFile :> pot)
           \/ disk = (potFile :> pot) @@ (poFileDe :> FileOf(PoHeader, <<PoBlocks[1]>>))
    /\ rewriteMode = FALSE
    /\ addLang \in AddLangCodes
    /\ sourceLang = <<>>
    /\ started = disk
    /\ unreadable = {}
    /\ unwritable \in {{}, {newPoFile}}
    /\ slept = FALSE
    /\ poFiles = <<>>
    /\ InitRun

NextAddLang ==
    \/ Interrupt
    \/ MainStart
    \/ AddLangCreate
    \/ SyncBegin
    \/ SyncCall
    \/ SyncReturn
    \/ SyncFinish

SpecAddLang == InitAddLang /\ [][NextAddLang]_vars

\* Templates to clone with --add-lang and then sync: those of the sync, and
\* those with keys and values over several lines and comments in odd places
ClonePotFiles ==
    PotFiles
        \cup {FileOf(PotHeader, <<StepBlocks[n]>>) : n \in 1..Len(StepBlocks)}
        \cup {FileOf(PotHeader, <<StepBlocks[1], StepBlocks[8]>>)}

InitClone ==
    /\ \E pot \in ClonePotFiles : disk = (potFile :> pot)
    /\ rewriteMode = FALSE
    /\ addLang = <<"d", "e">>
    /\ sourceLang = <<>>
    /\ started = disk
    /\ unreadable = {}
    /\ unwritable = {}
    /\ slept = FALSE
    /\ poFiles = <<>>
    /\ InitRun

SpecClone == InitClone /\ [][NextAddLang]_vars

\* A batch of two files, in either mode
NextBatch == Next \/ Skip

SpecBatch == InitBatch /\ [][NextBatch]_vars

\* A batch of two files in either mode, the first of which cannot be read,
\* or cannot be written, or is sound
InitIO ==
    /\ \E pot \in BatchPotFiles, po1 \in BatchPoFiles :
           disk = (potFile :> pot) @@ (poFileNone :> po1)
                      @@ (poFileEs :> FileOf(PoHeader, <<PoBlocks[6]>>))
    /\ rewriteMode \in BOOLEAN
    /\ addLang = <<>>
    /\ sourceLang = <<>>
    /\ started = disk
    /\ \E sets \in {<<{}, {}>>, <<{poFileNone}, {}>>, <<{}, {poFileNone}>>} :
           /\ unreadable = sets[1]
           /\ unwritable = sets[2]
           /\ slept = FALSE
    /\ poFiles = <<>>
    /\ InitRun

SpecIO == InitIO /\ [][NextBatch]_vars

InCall == pc \in {"sync_call", "rewrite_call"}

\* C11: in both translation loops, once the flag is set no backend call is
\* started any more; the translations obtained so far stay recorded, and
\* only the call in flight when the flag was set can still add one.
C11_NoCallAfterFlag ==
    [][interrupted =>
          /\ (pc' \in {"sync_call", "rewrite_call"}) => pc' = pc
          /\ \A key \in DOMAIN translations :
                 Has(translations', key) /\ translations'[key] = translations[key]
          /\ ~InCall => translations' = translations]_vars

\* The flag was set in the loop of the sync after a call succeeded, with keys
\* left; the call returned without them
C11_Witness ==
    /\ SyncReturned
    /\ interrupted
    /\ intrAt.pc = "sync_loop"
    /\ translatedCount > 0
    /\ idx <= Len(needsTranslation)
    /\ Cardinality(DOMAIN translations) = translatedCount

\* The target files of the batch that main's loop has not started on; before
\* line 153 these are the files that findPoFiles is going to return
NotStarted ==
    IF pc = "start" THEN {name \in DOMAIN disk : name # potFile}
    ELSE {poFiles[n] : n \in (IF pc = "files" THEN fileIdx ELSE fileIdx + 1)..Len(poFiles)}

\* C12: in a batch, once the flag is set main starts on no further target
\* file: at the head of its loop it only leaves, and the files it has not
\* started on keep their content.
C12_NoFileAfterFlag ==
    [][(interrupted /\ pc # "exit") =>
          /\ pc = "files" => (pc' = "exit" /\ fileIdx' = fileIdx /\ before' = before)
          /\ \A name \in NotStarted : disk'[name] = disk[name]]_vars

\* The flag was set while the first file of the batch was translated; main
\* left with the second file not started
C12_Witness ==
    /\ pc = "exit"
    /\ interrupted
    /\ intrAt.pc \in {"sync_loop", "sync_call", "rewrite_loop", "rewrite_call"}
    /\ Len(poFiles) = 2
    /\ fileIdx = 2
    /\ returned # None
    /\ returned.file = poFiles[1]

\* The flag stopped the run before its work was done: keys of the loop of
\* the sync were left, or files of the batch
StoppedEarly ==
    /\ interrupted
    /\ \/ /\ intrAt.pc \in {"sync_loop", "sync_call"}
          /\ idx <= Len(needsTranslation)
       \/ addLang = <<>> /\ fileIdx <= Len(poFiles)

\* The run did all its work
Completed ==
    IF addLang # <<>> THEN returned # None ELSE poFiles # <<>> /\ fileIdx > Len(poFiles)

\* C13: a run that the flag stopped early, in a batch or with --add-lang,
\* exits with code 130; a run in which the flag was never set and that did
\* all its work exits with code 0.
C13_ExitCodes ==
    pc = "exit" =>
        /\ StoppedEarly => exitCode = 130
        /\ (~interrupted /\ Completed) => exitCode = 0

\* The escaper has encoded and decoded the text
Decoded == output # None /\ "decoded" \in DOMAIN output

\* C14: for every text of printable characters, backslashes, quotes,
\* newlines and tabs, decoding the encoded text as it is written between
\* quotes gives the text back.
C14_RoundTrip == Decoded => (~output.crashed /\ output.decoded = input)

\* One of the parsers was applied to the file
Parsed == output # None /\ "fn" \in DOMAIN output

\* C15: parsing never fails: on every file, lines with unbalanced quoting
\* included, parsePotFile and the line scans of the sync and of rewrite
\* return a result and do not crash.
C15_ParsingNeverFails == Parsed => ~output.crashed

\* Every literal of the file stands between two quotes
Balanced(file) ==
    \A n \in 1..Len(file) :
        LET trimmed == TrimSpace(file[n])
            literal == IF IsMsgidLine(file[n]) THEN TrimSpace(From(trimmed, 6))
                       ELSE IF IsMsgstrLine(file[n]) THEN TrimSpace(From(trimmed, 7))
                       ELSE trimmed
        IN (IsMsgidLine(file[n]) \/ IsMsgstrLine(file[n]) \/ IsQuotedLine(file[n]))
               => (Len(literal) >= 2 /\ HasPrefix(literal, <<QT>>) /\ HasSuffix(literal, <<QT>>))

\* The entries of the file have distinct keys
DistinctEntries(file) == Cardinality(KeySet(file)) = Len(KeySeq(file))

\* C16: parsing a template with N entries of distinct non-empty keys gives
\* a catalog of exactly N entries, one per key, and the header's empty key
\* is not among them.
C16_OneEntryPerKey ==
    (/\ Parsed
     /\ output.fn = "parsePotFile"
     /\ Balanced(input)
     /\ DistinctEntries(input))
        => /\ ~output.crashed
           /\ DOMAIN output.entries = KeySet(input)
           /\ Cardinality(DOMAIN output.entries) = Len(KeySeq(input))
           /\ <<>> \notin DOMAIN output.entries

\* A template with two entries, one with its key over two lines, was parsed
C16_Witness ==
    /\ Parsed
    /\ output.fn = "parsePotFile"
    /\ Balanced(input)
    /\ DistinctEntries(input)
    /\ Len(KeySeq(input)) = 2
    /\ <<"a", "b">> \in KeySet(input)
    /\ Cardinality(DOMAIN output.entries) = 2

\* The destination of --add-lang is on the disk
DestinationExists == addLang # <<>> /\ newPoFile \in DOMAIN disk

\* C17: with --add-lang, when the destination file exists the program stops
\* with an error (exit status 1) and the file stays as it was: it is not
\* written by the copy and not translated.
C17_DestinationUntouched ==
    [][(DestinationExists /\ pc \in {"start", "addlang"})
          => /\ disk' = disk
             /\ sent' = sent
             /\ (pc = "addlang" /\ pc' # pc) => (pc' = "exit" /\ exitCode' = 1)]_vars

\* A run with a 2-letter code has stopped on the destination that exists
C17_Witness ==
    /\ DestinationExists
    /\ Len(addLang) = 2
    /\ pc = "exit"
    /\ exitCode = 1
    /\ returned = None
    /\ disk[newPoFile] # disk[potFile]

\* The header entry of a file: the lines from its first msgid line, which has
\* the empty key, to the line before the next blank line
HeaderBlock(file) ==
    LET starts == {n \in 1..Len(file) : IsMsgidLine(file[n])} IN
    IF starts = {} THEN {}
    ELSE LET first == CHOOSE n \in starts : \A m \in starts : n <= m IN
         {n \in first..Len(file) : \A m \in first..n : TrimSpace(file[m]) # <<>>}

\* The new file was created from the template and is not yet translated
Created == pc = "addlang_created"

\* C18: after --add-lang with code L the header of the new file has the
\* line "Language: L" and the line "Language-Team: " with L in upper case,
\* in the place of the template's lines, for every layout of the template,
\* a leading comment block separated from the header by a blank line included.
C18_HeaderLanguage ==
    Created =>
        LET template == disk[potFile]
            created == disk[newPoFile]
        IN
        /\ Len(created) = Len(template)
        /\ \A n \in HeaderBlock(template) :
               /\ Contains(template[n], litLanguage)
                      => created[n] = HeaderLine(litLanguage, addLang)
               /\ Contains(template[n], litLanguageTeam)
                      => created[n] = HeaderLine(litLanguageTeam, ToUpper(addLang))

\* The three lines of the header that the copy replaces
HeaderFields(file) ==
    {n \in HeaderBlock(file) :
        \/ Contains(file[n], litLanguage)
        \/ Contains(file[n], litLanguageTeam)
        \/ Contains(file[n], litRevisionDate)}

\* C19: --add-lang copies the template line for line: the new file has the
\* same number of lines, and every line that is not the Language, the
\* Language-Team or the PO-Revision-Date line of the header is the
\* template's line.
C19_CopiedLineForLine ==
    Created =>
        LET template == disk[potFile]
            created == disk[newPoFile]
        IN
        /\ Len(created) = Len(template)
        /\ \A n \in 1..Len(template) :
               n \notin HeaderFields(template) => created[n] = template[n]

\* The leading lines of a file up to the blank line that ends its header entry
HeaderLines(file) ==
    LET block == HeaderBlock(file)
        last == CHOOSE n \in block : \A m \in block : m <= n
    IN IF block = {} THEN <<>>
       ELSE SubSeq(file, 1, IF last < Len(file) THEN last + 1 ELSE last)

\* C20: rewrite mode keeps the header of the old file as it is: the new file
\* starts with the old file's leading lines (the comments above the header,
\* the empty msgid, its msgstr and every metadata line) up to the blank line
\* before the first entry.
C20_HeaderVerbatim ==
    RewriteReturned =>
        LET old == HeaderLines(before)
            new == disk[poFileEs]
        IN /\ Len(new) >= Len(old)
           /\ SubSeq(new, 1, Len(old)) = old

\* C21: the count of removed entries that rewrite mode reports is the number
\* of non-empty keys that are entries of the old target file and are not
\* keys of the template.
C21_RemovedCount ==
    RewriteReturned =>
        returned.removed = Cardinality(KeySet(before) \ KeySet(disk[potFile]))

\* An old file with two entries, one of the template and one foreign to it,
\* was rewritten
C21_Witness ==
    /\ RewriteReturned
    /\ Cardinality(KeySet(before)) = 2
    /\ Cardinality(KeySet(before) \cap KeySet(disk[potFile])) = 1
    /\ returned.removed = 1

InLoop == pc \in {"sync_loop", "sync_call", "rewrite_loop", "rewrite_call"}

\* The keys that had a backend call which failed, in a finished call of the
\* sync; in a finished call of rewrite, the keys of the template that were
\* without a translation and did not get one
Untranslated ==
    IF rewriteMode
    THEN (KeySet(disk[potFile]) \ TranslatedKeys(before)) \ DOMAIN translations
    ELSE Range(sent) \ DOMAIN translations

\* C22: a failed backend call is not fatal and not retried: the calls of a
\* loop are for the keys of its list, one call per key in list order, a
\* failure included; the count is the number of calls that succeeded; and
\* in the written file the msgstr of a key whose call failed is empty.
C22_FailureNotRetried ==
    /\ InLoop =>
           /\ Len(sent) = (IF InCall THEN idx ELSE idx - 1)
           /\ sent = SubSeq(needsTranslation, 1, Len(sent))
           /\ DOMAIN translations \subseteq Range(sent)
           /\ translatedCount = Cardinality(DOMAIN translations)
    /\ returned # None =>
           /\ returned.translated = Cardinality(DOMAIN translations)
           /\ \A key \in Untranslated :
                  \A e \in EntriesOf(disk[returned.file], key) : e.value = <<>>

\* Every key of the template is in the old target file, and no entry of the
\* old target file with a key of the template has an empty msgstr
NothingToDo ==
    /\ KeySet(disk[potFile]) \subseteq KeySet(before)
    /\ \A e \in Range(Entries(before)) :
           e.key \in KeySet(disk[potFile]) => e.value # <<>>

\* C23: when no entry of the target file needs a translation and no key of
\* the template is missing from it, the incremental sync does nothing: the
\* file is as it was, no backend call was made and the count is zero.
C23_NothingToDo ==
    (SyncReturned /\ NothingToDo)
        => /\ disk[returned.file] = before
           /\ sent = <<>>
           /\ returned.translated = 0

\* The run ended with a configuration error
ConfigError == pc = "exit" /\ exitCode = 1

\* C24: when a run ends with a configuration error (no template, no source
\* language in the template and none given, an --add-lang code that is not
\* 2 letters, an --add-lang destination that exists), no file was created
\* or changed by the run.
C24_ConfigErrorNoWrite == ConfigError => disk = started

\* The first file of a batch of two cannot be read or written, and the
\* second is sound
FirstFileFails ==
    /\ Len(poFiles) = 2
    /\ poFiles[1] \in unreadable \cup unwritable
    /\ poFiles[2] \notin unreadable \cup unwritable

\* C25: an I/O error on one target file of a batch is fatal to that file
\* only: the error does not end the run with an error status, the later
\* file is still processed, and the total is the count of the later file
\* alone.
C25_ErrorSkipsFileOnly ==
    /\ (pc = "exit" /\ returned # None /\ returned.error) => exitCode # 1
    /\ (pc = "exit" /\ exitCode = 0 /\ FirstFileFails)
           => /\ returned # None
              /\ returned.file = poFiles[2]
              /\ ~returned.error
              /\ totalTranslated = returned.translated

\* The first file lacked a key of the template and could not be written;
\* the second file was translated and written
C25_Witness ==
    /\ pc = "exit"
    /\ exitCode = 0
    /\ FirstFileFails
    /\ poFiles[1] \in unwritable
    /\ ~(KeySet(started[potFile]) \subseteq KeySet(started[poFiles[1]]))
    /\ disk[poFiles[1]] = started[poFiles[1]]
    /\ returned.file = poFiles[2]
    /\ returned.translated > 0
    /\ disk[poFiles[2]] # started[poFiles[2]]

\* The text of the line after the marker
RECURSIVE After(_, _)
After(line, marker) ==
    IF Len(line) < Len(marker) THEN <<>>
    ELSE IF HasPrefix(line, marker) THEN From(line, Len(marker))
    ELSE After(From(line, 1), marker)

\* The value of a Language header line: what stands between the marker and
\* the closing \n escape and quote
HeaderValue(line) ==
    TrimSuffix(TrimSuffix(TrimSpace(After(line, litLanguage)), <<BS, "n", QT>>), <<QT>>)

\* The lines of the file with a Language header that has a value
ValuedLines(file) ==
    {n \in 1..Len(file) : Contains(file[n], litLanguage) /\ HeaderValue(file[n]) # <<>>}

\* The part of the name after its last underscore, without the .po suffix;
\* empty when the name has no underscore
NamePart(base) ==
    LET at == {n \in 1..Len(base) : base[n] = "_"} IN
    IF at = {} THEN <<>>
    ELSE TrimSuffix(From(base, CHOOSE n \in at : \A m \in at : m <= n), litDotPo)

TargetLanguageFound == output # None /\ "fn" \in DOMAIN output /\ output.fn = "getTargetLanguage"

LanguageUpdated ==
    output # None /\ "fn" \in DOMAIN output /\ output.fn = "updatePotLanguage" /\ output.ok

\* C27: after updatePotLanguage with language L succeeded on a template in
\* which no line has a Language value (it has a Language line without a
\* value, or a Content-Type line only), parsePotFile on the file reports
\* the source language L.
C27_UpdatedLanguageIsRead ==
    (LanguageUpdated /\ ValuedLines(input.lines) = {})
        => (~output.crashed /\ output.sourceLang = input.language)

\* The parser is in the loop, and the line it read last
Scanning == output # None /\ "st" \in DOMAIN output

LineRead == ScannerLines(input)[output.at]

\* The parser reads a bare quoted line while a key or a value is open
ReadsContinuation ==
    /\ Scanning
    /\ "st" \in DOMAIN output'
    /\ output'.at = output.at + 1
    /\ HasPrefix(TrimSpace(ScannerLines(input)[output'.at]), <<QT>>)
    /\ output.st.inMsgid \/ output.st.inMsgstr

\* The text the key, or else the value, is extended with
Extended(field, text) ==
    /\ output'.st.currentMsgid =
           (IF field = "key" THEN output.st.currentMsgid \o text ELSE output.st.currentMsgid)
    /\ output'.st.currentMsgstr =
           (IF field = "key" THEN output.st.currentMsgstr ELSE output.st.currentMsgstr \o text)

\* C28 as stated: a bare quoted line read while a key or a value is open
\* extends it with a newline followed by the decoded text of the line.
C28_ContinuationWithNewline ==
    [][ReadsContinuation =>
           Extended(IF output.st.inMsgid THEN "key" ELSE "value",
                    <<NL>> \o extractString(TrimSpace(ScannerLines(input)[output'.at])))]_vars

\* C28, amended: a bare quoted line read while a key or a value is open
\* extends it with the decoded text of the line and nothing else; the other
\* of the two is left as it was.
C28_ContinuationAppended ==
    [][ReadsContinuation =>
           Extended(IF output.st.inMsgid THEN "key" ELSE "value",
                    extractString(TrimSpace(ScannerLines(input)[output'.at])))]_vars

\* The parser has read the second continuation line of a value: the value is
\* the text of the msgstr line and of the two lines, the escape decoded
C28_Witness ==
    /\ Scanning
    /\ output.at > 0
    /\ LineRead = cQuoted(<<"z">>)
    /\ output.st.inMsgstr
    /\ output.st.currentMsgid = <<"c">>
    /\ output.st.currentMsgstr = <<"x", "y", NL, "z">>

\* The decoded literals of the bare quoted lines that follow line n directly
RECURSIVE Continuations(_, _)
Continuations(file, n) ==
    IF n < Len(file) /\ HasPrefix(TrimSpace(file[n + 1]), <<QT>>)
    THEN extractString(TrimSpace(file[n + 1])) \o Continuations(file, n + 1)
    ELSE <<>>

\* The keys written over several lines: for each msgid line that bare quoted
\* lines follow, the text of its literal and then of theirs
MultiLineKeys(file) ==
    {extractString(From(TrimSpace(file[n]), 6)) \o Continuations(file, n) :
        n \in {m \in 1..Len(file) - 1 :
                  IsMsgidLine(file[m]) /\ HasPrefix(TrimSpace(file[m + 1]), <<QT>>)}}

TemplateParsed == output # None /\ "entries" \in DOMAIN output

\* C29: the key of an entry whose msgid is a msgid line followed by bare
\* quoted lines is the decoded literal of the msgid line followed by the
\* decoded literal of each of these lines in order, with nothing between
\* them.
C29_KeyIsConcatenation ==
    TemplateParsed =>
        \A key \in MultiLineKeys(input) : key # <<>> => Has(output.entries, key)

\* A template with a key over two lines and a key over three lines, one of
\* them an escaped newline, was parsed
C29_Witness ==
    /\ TemplateParsed
    /\ MultiLineKeys(input) = {<<"a", "b">>, <<"j", NL, "k">>}
    /\ Has(output.entries, <<"a", "b">>)
    /\ Has(output.entries, <<"j", NL, "k">>)
    /\ ~Has(output.entries, <<"a">>)

\* The comment lines that stand directly before line n, as written
RECURSIVE CommentsBefore(_, _)
CommentsBefore(file, n) ==
    IF n > 1 /\ HasPrefix(TrimSpace(file[n - 1]), <<"#">>)
    THEN Append(CommentsBefore(file, n - 1), file[n - 1])
    ELSE <<>>

\* The parser reads a msgid line
ReadsMsgid ==
    /\ Scanning
    /\ "st" \in DOMAIN output'
    /\ output'.at = output.at + 1
    /\ IsMsgidLine(ScannerLines(input)[output'.at])
    /\ ~output'.st.crashed

\* C30: the comments of an entry are the comment lines that stand directly
\* before its msgid line, as written and in their order; a comment with a
\* blank line or any other line between it and the msgid line is not among
\* them; and no comment is pending once the msgid line has taken them.
C30_CommentsDirectlyBefore ==
    [][ReadsMsgid =>
           /\ output'.st.currentComments = CommentsBefore(ScannerLines(input), output'.at)
           /\ output'.st.pendingComments = <<>>]_vars

\* The text of a literal's inside, read from left to right: each of the four
\* two-character escapes is its character, everything else stands for itself
RECURSIVE Unescaped(_)
Unescaped(s) ==
    IF s = <<>> THEN <<>>
    ELSE IF Len(s) >= 2 /\ s[1] = BS /\ s[2] \in {BS, QT, "n", "t"}
    THEN <<CASE s[2] = BS -> BS [] s[2] = QT -> QT [] s[2] = "n" -> NL [] OTHER -> TAB>>
             \o Unescaped(SubSeq(s, 3, Len(s)))
    ELSE <<s[1]>> \o Unescaped(Tail(s))

DecodedLiteral == output # None /\ "fn" \in DOMAIN output /\ output.fn = "extractString"

\* C31: extractString takes the surrounding quotes off and gives, for each
\* of the escapes backslash-backslash, backslash-quote, backslash-n and
\* backslash-t, its character; every other character stands for itself.
C31_DecodeEscapes ==
    DecodedLiteral =>
        /\ ~output.crashed
        /\ output.text = Unescaped(SubSeq(input, 2, Len(input) - 1))

\* The keys of the file whose translation is empty and whose template entry
\* is there and has no default translation
KeysToTranslate(file) ==
    {e.key : e \in {d \in Range(Entries(file)) :
                       /\ d.value = <<>>
                       /\ Has(potEntries, d.key)
                       /\ potEntries[d.key].Msgstr = <<>>}}

\* C32: the keys the incremental sync sends to the backend are keys of the
\* target file, the missing entries appended, whose translation is empty and
\* whose template entry has no default translation; a call that ran its loop
\* to the end sent every one of them.
C32_KeysSent ==
    /\ (~rewriteMode /\ InLoop) => Range(sent) \subseteq KeysToTranslate(lines)
    /\ (SyncReturned /\ ~returned.error /\ ~interrupted) =>
           Range(sent) = KeysToTranslate(lines)

\* A backend call of one of the two loops returns
CallReturns == InCall /\ pc' \in {"sync_loop", "rewrite_loop"}

\* C33: in both translation loops the delay is slept after a backend call
\* only when the call succeeded and another key of the list follows: after
\* the call for the last key there is no sleep, whether the earlier calls
\* succeeded or failed.
C33_NoSleepAfterLast ==
    [][CallReturns =>
           (slept' => (translatedCount' = translatedCount + 1
                       /\ idx' <= Len(needsTranslation)))]_vars

\* The comment lines of the entries of a file, the header entry left out
EntryComments(file) == UNION {Range(e.comments) : e \in Range(Entries(file))}

\* The comment lines that stand directly before the msgid line of the key in
\* the file
CommentsOf(file, key) == {e.comments : e \in EntriesOf(file, key)}

\* C34: in the file rewrite mode writes, every entry has before it the
\* comment lines of its key in the template and no other, and a comment
\* line of an entry of the old file is nowhere in it unless the template has
\* it too.
C34_TemplateComments ==
    RewriteReturned =>
        /\ \A e \in Range(Entries(disk[returned.file])) :
               e.comments \in CommentsOf(disk[potFile], e.key)
        /\ \A c \in EntryComments(before) \ EntryComments(disk[potFile]) :
               c \notin Range(disk[returned.file])

\* What a write of the current call puts in the file: in the sync the lines
\* with the translations patched in, in rewrite the file built from the
\* template in one of the orders of the map
FullContents ==
    IF rewriteMode
    THEN {RewrittenLines(headerLines, potEntries, order, translations, existingTranslations) :
              order \in Orders(DOMAIN potEntries)}
    ELSE {PatchedLines(lines, translations)}

\* C35: setting the flag aborts nothing: the step that sets it changes
\* nothing else, and within a run nothing else changes the flag; a backend
\* call in flight while the flag is set returns and its result is recorded
\* like any other; and a file written while the flag is set gets the whole
\* content computed for it.
C35_FlagAbortsNothing ==
    [][/\ (interrupted' # interrupted) =>
              \/ run' # run
              \/ /\ interrupted'
                 /\ UNCHANGED <<disk, pc, fileIdx, lines, needsTranslation, idx, translations,
                                translatedCount, totalTranslated, exitCode, returned>>
       /\ (interrupted /\ InCall /\ pc' # pc) =>
              /\ pc' \in {"sync_loop", "rewrite_loop"}
              /\ idx' = idx + 1
              /\ \/ translations' = translations /\ translatedCount' = translatedCount
                 \/ /\ translatedCount' = translatedCount + 1
                    /\ Has(translations', needsTranslation[idx])
                    /\ \A key \in DOMAIN translations :
                           Has(translations', key) /\ translations'[key] = translations[key]
       /\ (interrupted /\ disk' # disk) =>
              /\ disk'[poFiles[fileIdx]] \in FullContents
              /\ \A name \in DOMAIN disk : name # poFiles[fileIdx] => disk'[name] = disk[name]]_vars

\* The flag was set while a backend call was in flight; the call's
\* translation was recorded and the file was written with it
C35_Witness ==
    /\ returned # None
    /\ intrAt # None
    /\ intrAt.pc \in {"sync_call", "rewrite_call"}
    /\ returned.translated = intrAt.translatedCount + 1
    /\ disk[returned.file] # before
    /\ Len(sent) < Len(needsTranslation) \/ rewriteMode

LanguageDetected == output # None /\ "fn" \in DOMAIN output /\ output.fn = "sourceLang"

\* C36: parsePotFile reports as source language the value of the last line
\* of the file whose Language header has a value, be the line in the header
\* entry or anywhere after it, and the empty string when no line has one.
C36_SourceLanguage ==
    LanguageDetected =>
        LET valued == ValuedLines(input)
            last == CHOOSE n \in valued : \A m \in valued : m <= n
        IN /\ ~output.crashed
           /\ output.lang = (IF valued = {} THEN <<>> ELSE HeaderValue(input[last]))

\* The lines a is made of stand in b, one after the other, at or after
\* position from
OccursFrom(a, b, from) ==
    \E i \in from..(Len(b) - Len(a) + 1) : SubSeq(b, i, i + Len(a) - 1) = a

\* Every entry the call found missing stands in the file after the lines the
\* file had: its msgid as written for the key, and an empty msgstr
MissingOnDisk(name) ==
    \A n \in 1..Len(missingMsgids) :
        OccursFrom(EmitBlock(litMsgidSp, missingMsgids[n]) \o <<litEmptyMsgstr>>,
                   disk[name], Len(before) + 1)

\* C37: in the incremental sync the missing entries are in the file on disk
\* before the first backend call and during the loop, and they are still
\* there, untranslated, when the call returns without any translation, all
\* backend calls failed or the flag set before the first.
C37_MissingWrittenFirst ==
    /\ (~rewriteMode /\ pc \in {"sync_loop", "sync_call"}) =>
           /\ MissingOnDisk(CallFile)
           /\ disk[CallFile] = lines
    /\ (SyncReturned /\ ~returned.error /\ DOMAIN translations = {}) =>
           MissingOnDisk(returned.file)

\* Entries were appended, every backend call failed, and the call returned
C37_Witness ==
    /\ SyncReturned
    /\ ~returned.error
    /\ missingMsgids # <<>>
    /\ sent # <<>>
    /\ Len(sent) = Len(needsTranslation)
    /\ DOMAIN translations = {}
    /\ Len(disk[returned.file]) > Len(before)

\* The sync of the file --add-lang created has read the file
CloneScanned == addLang # <<>> /\ (pc \in {"sync_loop", "sync_call"} \/ returned # None)

\* C38: the sync of a file that --add-lang has just copied from the template
\* appends nothing: the keys its first scan finds in the copy are the keys
\* parsePotFile found in the template.
C38_CloneHasAllKeys ==
    CloneScanned =>
        /\ missingMsgids = <<>>
        /\ existingScan(existingInit, before, 1).existingMsgids = DOMAIN potEntries
        /\ \A n \in 1..Len(before) : IsMsgidLine(before[n]) => before[n] \in Range(disk[potFile])

\* A template with a key over two lines and a key over three lines was
\* copied and the copy synced, with nothing appended
C38_Witness ==
    /\ CloneScanned
    /\ returned # None
    /\ DOMAIN potEntries = {<<"a", "b">>, <<"i">>, <<"j", NL, "k">>}
    /\ missingMsgids = <<>>
    /\ sent # <<>>

\* The second run of rewrite mode has rewritten the file the first run wrote,
\* and the first run left no key of the template without a translation
SecondRewrite ==
    /\ RewriteReturned
    /\ run = 2
    /\ prev.exitCode = 0
    /\ KeySet(disk[potFile]) \subseteq TranslatedKeys(before)
    /\ before = prev.disk[returned.file]

\* C39: rewrite mode run again on the file it wrote, with the same template
\* and no key left without a translation, calls the backend for nothing,
\* reports no removed entry and writes the same file.
C39_RewriteIdempotent ==
    SecondRewrite =>
        /\ sent = <<>>
        /\ returned.translated = 0
        /\ returned.removed = 0
        /\ disk[returned.file] = before

\* The comment lines the sync writes before an appended key: the template's,
\* or the marker line when the template has none for it
AppendedComments(key) ==
    IF potEntries[key].Comments = <<>> THEN <<litAddedFromPot>> ELSE potEntries[key].Comments

\* C40: an entry the sync appends for a key whose template entry has no
\* comment lines has the line '#: (added from POT)' where the comments
\* would be, between the blank line and the msgid; an entry with template
\* comments has those and no marker; so every appended msgid line has a
\* comment line right before it.
C40_MarkerForBareEntries ==
    (~rewriteMode /\ pc \in {"sync_loop", "sync_call"}) =>
        /\ \A n \in 1..Len(missingMsgids) :
               OccursFrom(<<<<>>>> \o AppendedComments(missingMsgids[n])
                              \o EmitBlock(litMsgidSp, missingMsgids[n]),
                          disk[CallFile], Len(before))
        /\ \A i \in (Len(before) + 1)..Len(disk[CallFile]) :
               IsMsgidLine(disk[CallFile][i]) => IsCommentLine(disk[CallFile][i - 1])

\* The sync appended a key without template comments, with the marker, and a
\* key with a template comment
C40_Witness ==
    /\ ~rewriteMode
    /\ pc = "sync_call"
    /\ Range(missingMsgids) = {<<"a">>, <<"b">>}
    /\ potEntries[<<"b">>].Comments = <<>>
    /\ potEntries[<<"a">>].Comments # <<>>
    /\ OccursFrom(<<<<>>, litAddedFromPot, cMsgid(<<"b">>), litEmptyMsgstr>>, disk[CallFile],
                  Len(before))
=============================================================================
